---- MODULE Spec2Model ----
(***************************************************************************)
(* Room synchronisation and match lifecycle of math-whiz.                  *)
(*                                                                         *)
(* One room document and its players sub-collection live in the shared     *)
(* store; every client is a single-threaded screen machine                 *)
(* (room-host, room-join, room-wait, game, room-result) whose handlers     *)
(* read and write the store.  A handler is cut at its awaits: each store   *)
(* call is one atomic step, and other clients run between two steps.       *)
(* A runTransaction body is one atomic step.  Snapshot listeners deliver   *)
(* the store's current value at any later moment, so the React state a     *)
(* handler reads can be older than the store; a client's own write is      *)
(* reflected in its own listener with the write (the store's local cache), *)
(* and the effect that depends on the new React state runs with it.        *)
(* RoomHostScreen's `starting` flag is set by handleStart and cleared only *)
(* after the write is acknowledged, when the screen has already been       *)
(* replaced by /game; it never enables or disables anything and is left    *)
(* out.                                                                    *)
(*                                                                         *)
(* A server timestamp is kept as the ordinal of the write that stamped the *)
(* field (1 for the first write of that field, 2 for the next, ...): two   *)
(* writes of one field never carry the same timestamp, and no code         *)
(* compares the timestamps of different fields.  updatedAt, createdAt and  *)
(* joinedAt are written but never read by the protocol and are left out.   *)
(***************************************************************************)
EXTENDS Integers, FiniteSets, Sequences, TLC

\* ------------------------------------------------------------------ bounds
NumGuests == 2
\* how often the host confirms the exit alert while one finishGame is running
MaxHostExits == 1

\* ------------------------------------------------------- program constants
MaxPlayers == 8
InitialDurationSec == 60
MAX_SEED == 2000000000
DURATION_OPTIONS == {60, 120, 180}
\* the duration cards pressed in the model
DurationInputs == {d \in DURATION_OPTIONS : d <= 120}

\* JavaScript null / an absent numeric field
Null == -1
\* no uid known yet (roomHostUid before the first room snapshot)
NoUid == "none"
\* endedReason: null
NoReason == "none"

HostUid == "host"
GuestNames == <<"g1", "g2", "g3", "g4">>
Guests == {GuestNames[i] : i \in 1..NumGuests}
Users == {HostUid} \cup Guests

\* Math.random() sampled at its two extremes: floor(random * 2e9)
RandomDraws == {0, MAX_SEED - 1}

\* auth.currentUser.uid of a client.  A client is named by its uid; the one
\* exception is SecondSession, a second device signed in as the first guest.
SecondSession == "g1b"
uid(c) == IF c = SecondSession THEN GuestNames[1] ELSE c

\* the code of the room, and a code no room has
RoomCode == "ROOM01"
OtherCode == "NOROOM"
Codes == {RoomCode, OtherCode}

\* handleSubmit: a correct answer adds `gain` to the score
Gain == 10
\* the answers a player gives in one game
MaxAnswers == 1

VARIABLES
    room,          \* rooms/{code}
    players,       \* rooms/{code}/players: uid -> Player record
    screen,        \* the screen (and await position) of every client
    hostRoom,      \* RoomHostScreen `room` state: <<>> is null, <<r>> a RoomDoc
    hostPlayers,   \* RoomHostScreen `players` state (the uids listed)
    roomHostUid,   \* GameScreen `roomHostUid` state
    finishedRef,   \* GameScreen `finishedRef.current`
    stats,         \* GameScreen `score`, `solved` and `attempts` state
    closure,       \* the state values in the finishGame that the interval
                   \* and the room listener of the GameScreen call: those of
                   \* the render in which their effects last ran
    finishing,     \* the state values in the finishGame call that set
                   \* finishedRef
    hostExits,     \* how many times the host's handleExit has written
    alerts,        \* history: the last Alert joinRoom showed to each observed
                   \* client ("none" before the first); the domain is the set
                   \* of clients whose alerts are recorded
    endedWrites,   \* history: writes that set status = 'ended', in order
    finishedTx     \* history: users whose finish transaction has committed

\* the state of the other parts of the program, each followed by a
\* specification of its own
VARIABLES
    rooms,         \* the rooms collection: code -> RoomDoc (createRoom)
    roomPlayers,   \* rooms/{code}/players of every code: uid -> Player record
    creators,      \* FriendsModal of every creating client: position in
                   \* createRoom, attempt number, code drawn, last Alert
    generators,    \* every mulberry32 instance: its seed and its variable t
    produced,      \* history: the questions generateQuestion has returned
                   \* over each instance, in order
    resultPlayers, \* RoomResultScreen `players` state, in query order
    ranked,        \* RoomResultScreen `ranked`: computeRanks(players, uid)
    endTimeMs,     \* GameScreen `endTimeMs` state of every client whose
                   \* countdown is followed: null or an instant in ms
    startedAtRef,  \* GameScreen `startedAtRef.current` of these clients
    hasPendingWrites, \* the clients whose cached room document holds their
                   \* own write of startedAt, not yet answered by the server
    sawStartedAt   \* history: the followed clients whose listener has
                   \* processed a snapshot that carries startedAt

roomVars == <<room, players, screen, hostRoom, hostPlayers,
              roomHostUid, finishedRef, stats, closure, finishing, hostExits,
              alerts, endedWrites, finishedTx>>
createVars == <<rooms, roomPlayers, creators>>
genVars == <<generators, produced>>
rankVars == <<resultPlayers, ranked>>
timeVars == <<endTimeMs, startedAtRef, hasPendingWrites, sawStartedAt>>
sideVars == <<createVars, genVars, rankVars, timeVars>>
vars == <<roomVars, sideVars>>

storeVars == <<room, players>>
hostVars == <<hostRoom, hostPlayers>>
playVars == <<stats, closure, finishing>>
gameVars == <<roomHostUid, finishedRef, playVars, hostExits>>
histVars == <<alerts, endedWrites, finishedTx>>

Roster == DOMAIN players

\* serverTimestamp() written over a field whose value was prev
serverTimestamp(prev) == IF prev = Null THEN 1 ELSE prev + 1

\* ---------------------------------------------------------------- documents

\* friends.tsx createRoom: the room document as first written
NewRoomDoc(creator) ==
    [ hostUid       |-> creator,
      status        |-> "lobby",
      locked        |-> FALSE,
      maxPlayers    |-> MaxPlayers,
      durationSec   |-> InitialDurationSec,
      seed          |-> Null,
      startedAt     |-> Null,
      playerCount   |-> Null,
      finishedCount |-> Null,
      endedReason   |-> NoReason,
      endedAt       |-> Null ]

\* friends.tsx createRoom: the creator's player document
HostPlayerDoc ==
    [ isHost |-> TRUE, score |-> 0, attempts |-> 0, correct |-> 0,
      accuracy |-> 0, finishedAt |-> Null ]

\* room-join.tsx joinRoom: the fields setDoc(..., {merge: true}) writes
JoinFields ==
    [ isHost |-> FALSE, score |-> 0, attempts |-> 0, correct |-> 0,
      accuracy |-> 0 ]

\* setDoc(ref, fields, {merge: true}) on the players collection: fields given
\* replace the stored ones, other stored fields stay, a missing document is
\* created with the given fields only (a field it lacks reads as false, as
\* undefined score or as no finishedAt).
MergePlayer(id, fields) ==
    LET old == IF id \in Roster THEN players[id]
               ELSE [ isHost |-> FALSE, score |-> Null, attempts |-> Null,
                      correct |-> Null, accuracy |-> Null,
                      finishedAt |-> Null ]
        new == [ f \in DOMAIN old |->
                   IF f \in DOMAIN fields THEN fields[f] ELSE old[f] ]
    IN  [ v \in Roster \cup {id} |-> IF v = id THEN new ELSE players[v] ]

\* part_001 622-634: the state a GameScreen starts with
NoStats == [ score |-> 0, solved |-> 0, attempts |-> 0 ]

\* no client in C has a GameScreen: the values its state will start with
GameUnmounted(C) ==
    /\ stats = [ u \in C |-> NoStats ]
    /\ closure = [ u \in C |-> NoStats ]
    /\ finishing = [ u \in C |-> NoStats ]

\* the other parts of the program at rest: no createRoom, no generator, no
\* result screen
CreateIdle ==
    /\ rooms = <<>>
    /\ roomPlayers = <<>>
    /\ creators = <<>>

GenIdle ==
    /\ generators = <<>>
    /\ produced = <<>>

RankIdle ==
    /\ resultPlayers = <<>>
    /\ ranked = <<>>

TimeIdle ==
    /\ endTimeMs = <<>>
    /\ startedAtRef = <<>>
    /\ hasPendingWrites = {}
    /\ sawStartedAt = {}

SideIdle == CreateIdle /\ GenIdle /\ RankIdle /\ TimeIdle

\* ------------------------------------------------------------------ Init
\* The state right after createRoom has written the room and the host's
\* player document and has navigated the creator to /room-host.
Init ==
    /\ room = NewRoomDoc(HostUid)
    /\ players = [ u \in {HostUid} |-> HostPlayerDoc ]
    /\ screen = [ u \in Users |-> IF u = HostUid THEN "room-host" ELSE "home" ]
    /\ hostRoom = <<>>
    /\ hostPlayers = {}
    /\ roomHostUid = [ u \in Users |-> NoUid ]
    /\ finishedRef = [ u \in Users |-> FALSE ]
    /\ GameUnmounted(Users)
    /\ hostExits = 0
    /\ alerts = <<>>
    /\ endedWrites = <<>>
    /\ finishedTx = {}
    /\ SideIdle

\* ------------------------------------------------------ question generator
\* A 32-bit word is written <<high 16 bits, low 16 bits>>, so that every
\* intermediate value stays below 2^31.  The operators of
\* the code act on the low 32 bits of their operands: t, which the code
\* never truncates, stays an exact number for over 4 million draws, and
\* the sum in `r ^= r + ...` is cut to 32 bits by ^.
Half == 65536

\* seed >>> 0, for a seed in 0 .. 2^31 - 1
Word(n) == << (n \div Half) % Half, n % Half >>

RECURSIVE BitOp(_, _, _, _)
\* ^ (op = "xor") or | (op = "or") on the low `bits` bits of a and b
BitOp(op, a, b, bits) ==
    IF bits = 0 THEN 0
    ELSE LET x == a % 2
             y == b % 2
             z == IF op = "xor" THEN (x + y) % 2
                  ELSE IF x + y > 0 THEN 1 ELSE 0
         IN  z + 2 * BitOp(op, a \div 2, b \div 2, bits - 1)

\* In the operators on words the operands are first bound to their values
\* (a, b), so that each operand is computed once.

\* v ^ w
Xor(v, w) ==
    CHOOSE r \in { << BitOp("xor", a[1], b[1], 16),
                      BitOp("xor", a[2], b[2], 16) >> :
                   a \in {v}, b \in {w} } : TRUE

\* v | w
Or(v, w) ==
    CHOOSE r \in { << BitOp("or", a[1], b[1], 16),
                      BitOp("or", a[2], b[2], 16) >> :
                   a \in {v}, b \in {w} } : TRUE

\* v + w on 32 bits
Add(v, w) ==
    CHOOSE r \in { << (a[1] + b[1] + (a[2] + b[2]) \div Half) % Half,
                      (a[2] + b[2]) % Half >> :
                   a \in {v}, b \in {w} } : TRUE

\* v >>> k, for 0 < k < 16
Shr(v, k) ==
    CHOOSE r \in { << a[1] \div (2 ^ k),
                      (a[2] \div (2 ^ k)) + (a[1] % (2 ^ k)) * (Half \div (2 ^ k)) >> :
                   a \in {v} } : TRUE

\* the 32-bit product of two 16-bit numbers
Mul16(x, y) ==
    LET p0 == (x % 256) * y
        p1 == (x \div 256) * y
        l  == (p0 % Half) + (p1 % 256) * 256
    IN  << (p0 \div Half + p1 \div 256 + l \div Half) % Half, l % Half >>

\* Math.imul(v, w)
imul(v, w) ==
    CHOOSE r \in { << (Mul16(a[2], b[2])[1] + Mul16(a[1], b[2])[2]
                         + Mul16(a[2], b[1])[2]) % Half,
                      Mul16(a[2], b[2])[2] >> :
                   a \in {v}, b \in {w} } : TRUE

\* 0x6d2b79f5
Increment == << 27947, 31221 >>

\* part_001 497: t += 0x6d2b79f5
mulberry32_t(t) == Add(t, Increment)

\* part_001 498: let r = Math.imul(t ^ (t >>> 15), 1 | t)
mulberry32_r(t) ==
    CHOOSE r \in { imul(Xor(t1, Shr(t1, 15)), Or(<< 0, 1 >>, t1)) :
                   t1 \in {t} } : TRUE

\* part_001 499: r ^= r + Math.imul(r ^ (r >>> 7), 61 | r)
mulberry32_rr(r) ==
    CHOOSE r2 \in { Xor(r1, Add(r1, imul(Xor(r1, Shr(r1, 7)),
                                         Or(<< 0, 61 >>, r1)))) :
                    r1 \in {r} } : TRUE

\* part_001 494-502: one call of the function mulberry32 returns, on the
\* variable t of its closure: the new t, and the 32-bit numerator of the
\* result, (r ^ (r >>> 14)) >>> 0 (the result is value / 4294967296)
mulberry32(t) ==
    CHOOSE out \in { [ t |-> t1, value |-> Xor(r2, Shr(r2, 14)) ] :
                     t1 \in {mulberry32_t(t)},
                     r2 \in {mulberry32_rr(mulberry32_r(mulberry32_t(t)))} } :
       TRUE

\* part_001 504-505: randInt on the numerator of rng(): the product with
\* max - min + 1 is below 2^40, so the double is exact and Math.floor takes
\* its bits from 2^32 up
randInt(value, min, max) ==
    CHOOSE r \in { ((u[1] * (max - min + 1)
                       + (u[2] * (max - min + 1)) \div Half) \div Half) + min :
                   u \in {value} } : TRUE

\* rng() < 0.5
BelowHalf(value) == value[1] < 32768

\* rng() < 0.4: the double 0.4 times 2^32 lies between 0x66666666 and the
\* next integer
BelowFourTenths(value) ==
    value[1] < 26214 \/ (value[1] = 26214 /\ value[2] <= 26214)

RECURSIVE gcd(_, _)
\* part_001 507: gcd, on numbers that are not negative
gcd(a, b) == IF b = 0 THEN a ELSE gcd(b, a % b)

\* mutant: lcm as the product
lcm_Product(a, b) == a * b

\* part_001 508: lcm
lcm(a, b) == (a * b) \div gcd(a, b)

RECURSIVE HalveWhileEven(_)
\* part_001 512-515: while (num % 2 === 0) num /= 2
HalveWhileEven(num) == IF num % 2 = 0 THEN HalveWhileEven(num \div 2) ELSE num

RECURSIVE OddFactors(_, _, _)
\* part_001 516-522: the loop over odd i, and the test after it
OddFactors(num, i, maxPrime) ==
    IF i * i <= num
    THEN IF num % i = 0 THEN OddFactors(num \div i, i, i)
         ELSE OddFactors(num, i + 2, maxPrime)
    ELSE IF num > 2 THEN num ELSE maxPrime

\* part_001 509-524: highestPrimeFactor, for n >= 1
highestPrimeFactor(n) ==
    OddFactors(HalveWhileEven(n), 3, IF n % 2 = 0 THEN 2 ELSE -1)

\* part_001 481-491
operations ==
    << "add", "sub", "mul", "div", "lcm", "hcf", "hpf", "square", "cube" >>

\* a Question: the prompt is the template of its string and the numbers
\* printed into it
Question(template, numbers, answer) ==
    [ prompt |-> [ template |-> template, numbers |-> numbers ],
      answer |-> answer ]

RECURSIVE Draws(_, _)
\* the results of the next n calls of rng() on an instance whose variable
\* is t, each with t as the call leaves it
Draws(t, n) ==
    IF n = 0 THEN <<>>
    ELSE CHOOSE s \in { << d >> \o Draws(d.t, n - 1) :
                        d \in {mulberry32(t)} } : TRUE

\* part_001 527-587: the switch of generateQuestion, on the results d1 to d4
\* of the calls of rng(): the first gives op, a case takes the next one, two
\* or three, and t is as the last call taken has left it
QuestionFrom(d1, d2, d3, d4) ==
    LET op == operations[randInt(d1.value, 0, Len(operations) - 1) + 1]
        Max(x, y) == IF x >= y THEN x ELSE y
        Min(x, y) == IF x <= y THEN x ELSE y
    IN  CASE op = "add" ->
               LET a == randInt(d2.value, 25, 150)
                   b == randInt(d3.value, 15, 120)
               IN  [ t |-> d3.t,
                     question |-> Question("a + b", << a, b >>, a + b) ]
          [] op = "sub" ->
               LET a == randInt(d2.value, 80, 180)
                   b == randInt(d3.value, 20, 90)
               IN  [ t |-> d3.t,
                     question |-> Question("bigger - smaller",
                                           << Max(a, b), Min(a, b) >>,
                                           Max(a, b) - Min(a, b)) ]
          [] op = "mul" ->
               LET a == randInt(d2.value, 7, 15)
                   b == randInt(d3.value, 6, 14)
               IN  [ t |-> d3.t,
                     question |-> Question("a x b", << a, b >>, a * b) ]
          [] op = "div" ->
               LET divisor == randInt(d2.value, 3, 12)
                   quotient == randInt(d3.value, 4, 16)
               IN  [ t |-> d3.t,
                     question |-> Question("dividend / divisor",
                                           << divisor * quotient, divisor >>,
                                           quotient) ]
          [] op = "lcm" ->
               LET a == randInt(d2.value, 4, 12)
                   b == randInt(d3.value, 5, 14)
               IN  [ t |-> d3.t,
                     question |-> Question("LCM(a, b)", << a, b >>,
                                           lcm(a, b)) ]
          [] op = "hcf" ->
               LET base == randInt(d2.value, 2, 12)
                   a == base * randInt(d3.value, 4, 12)
                   b == base * randInt(d4.value, 3, 11)
               IN  [ t |-> d4.t,
                     question |-> Question("HCF(a, b)", << a, b >>,
                                           gcd(a, b)) ]
          [] op = "hpf" ->
               LET num == randInt(d2.value, 60, 220)
               IN  [ t |-> d2.t,
                     question |-> Question("Highest prime factor of num",
                                           << num >>,
                                           highestPrimeFactor(num)) ]
          [] op = "square" ->
               IF BelowHalf(d2.value)
               THEN LET n == randInt(d3.value, 6, 15)
                    IN  [ t |-> d3.t,
                          question |-> Question("root of n * n", << n * n >>,
                                                n) ]
               ELSE LET n == randInt(d3.value, 9, 18)
                    IN  [ t |-> d3.t,
                          question |-> Question("n squared", << n >>, n * n) ]
          [] op = "cube" ->
               IF BelowFourTenths(d2.value)
               THEN LET n == randInt(d3.value, 2, 6)
                    IN  [ t |-> d3.t,
                          question |-> Question("cube root of n * n * n",
                                                << n * n * n >>, n) ]
               ELSE LET n == randInt(d3.value, 3, 8)
                    IN  [ t |-> d3.t,
                          question |-> Question("n cubed", << n >>,
                                                n * n * n) ]

\* part_001 526-588: generateQuestion(rng) on an instance whose variable is
\* t: the question, and t after the calls of rng the question took
generateQuestion(t) ==
    CHOOSE out \in { QuestionFrom(d[1], d[2], d[3], d[4]) :
                     d \in {Draws(t, 4)} } : TRUE

\* --------------------------------------------- GameScreen: seed and rng
RECURSIVE String(_)
\* String(n) of an integer n >= 0, as index.tsx 973 and room-wait.tsx 53 put
\* the seed into the route parameters of /game: its decimal digits
String(n) ==
    IF n < 10 THEN << n >> ELSE Append(String(n \div 10), n % 10)

RECURSIVE parseInt(_)
\* parseInt(s, 10) of a string of decimal digits
parseInt(s) ==
    IF Len(s) = 1 THEN s[1]
    ELSE 10 * parseInt(SubSeq(s, 1, Len(s) - 1)) + s[Len(s)]

\* a route parameter that is not given
NoParam == <<>>

\* part_001 613-617: seedNumber, null without the parameter; the parse of a
\* digit string is finite
seedNumber(seed) == IF seed = NoParam THEN Null ELSE parseInt(seed)

\* Math.random in the place of an instance: it has no seed and no variable
MathRandom == [ seed |-> Null, t |-> << 0, 0 >> ]

\* numerators Math.random can give to the first call of a question
MathRandomWords == { << 0, 1 >>, << 40000, 2 >> }

\* mutant: rng is Math.random whatever the seed
rng_Unseeded(n) == MathRandom

\* part_001 619: rng, the instance mulberry32(seedNumber) or, when seedNumber
\* is null or 0, Math.random
rng(n) ==
    IF n # Null /\ n # 0 THEN [ seed |-> n, t |-> Word(n) ] ELSE MathRandom

\* part_001 622 and 926: generateQuestion(rng) on the GameScreen of client u
\* whose rng is g, for the first question of a fresh screen or for the one
\* after a correct answer.  The questions are followed for the clients in
\* the domain of generators.
askQuestion(u, g, fresh) ==
    IF u \notin DOMAIN generators THEN UNCHANGED genVars
    ELSE \E q \in ( IF g.seed = Null
                    THEN { [ t |-> g.t,
                             question |-> generateQuestion(w).question ] :
                           w \in MathRandomWords }
                    ELSE { generateQuestion(g.t) } ) :
            /\ generators' = [generators EXCEPT
                                ![u] = [ seed |-> g.seed, t |-> q.t ]]
            /\ produced' = [produced EXCEPT
                                ![u] = IF fresh THEN << q.question >>
                                       ELSE Append(@, q.question)]

\* ------------------------------------------------------- RoomHostScreen

\* index.tsx 928-936: the RoomDoc the room listener stores with setRoom
HostRoomView(r) ==
    [ hostUid     |-> r.hostUid,
      status      |-> r.status,
      locked      |-> r.locked,
      maxPlayers  |-> r.maxPlayers,
      durationSec |-> r.durationSec,
      seed        |-> r.seed ]

\* index.tsx 916-917: isHost, which is true as long as room is null
isHost(me) ==
    IF hostRoom # <<>> THEN me = hostRoom[1].hostUid ELSE TRUE

\* index.tsx 966-981: the navigation effect, run when `room` has changed
HostEffect(view, cur) ==
    IF view.status = "in_progress" /\ view.seed # Null /\ view.seed # 0
          /\ view.durationSec # 0
    THEN "game"
    ELSE IF view.status = "ended" THEN "room-result" ELSE cur

\* --------------------------------------------- GameScreen: the end instant
\* the instant, in ms, the server stamped into startedAt at the first write
\* of the field
StartedAtMs == 5000

\* startedAt.toMillis() of the timestamp the server wrote at the ts-th write
\* of the field
toMillis(ts) == StartedAtMs * ts

\* readings of Date.now() on a client, whose clock need not agree with the
\* server's: a second before startedAt, half a second after it, and a
\* little over a second after it
Nows == {4000, 5500, 6001}

\* Math.abs
Abs(x) == IF x < 0 THEN 0 - x ELSE x

\* the room document as the listener of client u receives it: a write of
\* serverTimestamp() by u itself reads null in u's snapshots until the
\* server has answered
SnapshotFor(u) ==
    IF u \in hasPendingWrites THEN [room EXCEPT !.startedAt = Null] ELSE room

\* mutant: a held end instant is never replaced
AlignEnd_KeepsHeld(data, held, ref, now) ==
    IF held # Null THEN [ endTimeMs |-> held, startedAtRef |-> ref ]
    ELSE IF data.startedAt # Null
    THEN [ endTimeMs    |-> toMillis(data.startedAt) + data.durationSec * 1000,
           startedAtRef |-> toMillis(data.startedAt) ]
    ELSE IF data.status = "in_progress"
    THEN [ endTimeMs |-> now + data.durationSec * 1000, startedAtRef |-> now ]
    ELSE [ endTimeMs |-> held, startedAtRef |-> ref ]

\* mutant: without startedAt the end instant stays unset
AlignEnd_NoFallback(data, held, ref, now) ==
    IF data.startedAt # Null
    THEN LET candidateEnd ==
                 toMillis(data.startedAt) + data.durationSec * 1000
         IN  [ endTimeMs    |-> IF held = Null
                                   \/ Abs(candidateEnd - held) > 1000
                                THEN candidateEnd ELSE held,
               startedAtRef |-> toMillis(data.startedAt) ]
    ELSE [ endTimeMs |-> held, startedAtRef |-> ref ]

\* part_001 670-684: the listener aligns the end instant on the snapshot
\* `data`, when the screen holds endTimeMs = held and startedAtRef = ref and
\* Date.now() reads now.  The room document always carries a numeric
\* durationSec, so durationDoc is that of the snapshot.
AlignEnd(data, held, ref, now) ==
    LET durationDoc == data.durationSec
    IN  IF data.startedAt # Null
        THEN LET startTs == toMillis(data.startedAt)
                 candidateEnd == startTs + durationDoc * 1000
             IN  [ endTimeMs    |-> IF held = Null
                                       \/ Abs(candidateEnd - held) > 1000
                                    THEN candidateEnd ELSE held,
                   startedAtRef |-> startTs ]
        ELSE IF data.status = "in_progress" /\ held = Null
        THEN [ endTimeMs    |-> now + durationDoc * 1000,
               startedAtRef |-> now ]
        ELSE [ endTimeMs |-> held, startedAtRef |-> ref ]

\* the clients whose countdown is followed
Timed == DOMAIN endTimeMs

\* entering /game mounts a fresh GameScreen for that client, with the seed
\* of the RoomDoc r in its route parameters; its first render makes rng and
\* asks the first question (part_001 619-622)
MountGame(u, to, r) ==
    /\ roomHostUid' = IF to = "game" THEN [roomHostUid EXCEPT ![u] = NoUid]
                      ELSE roomHostUid
    /\ finishedRef' = IF to = "game" THEN [finishedRef EXCEPT ![u] = FALSE]
                      ELSE finishedRef
    /\ stats' = IF to = "game" THEN [stats EXCEPT ![u] = NoStats] ELSE stats
    /\ closure' = IF to = "game" THEN [closure EXCEPT ![u] = NoStats]
                  ELSE closure
    /\ finishing' = IF to = "game" THEN [finishing EXCEPT ![u] = NoStats]
                    ELSE finishing
    /\ IF to = "game"
       THEN askQuestion(u, rng(seedNumber(String(r.seed))), TRUE)
       ELSE UNCHANGED genVars
    /\ IF to = "game" /\ u \in Timed
       THEN /\ endTimeMs' = [endTimeMs EXCEPT ![u] = Null]
            /\ \E now \in Nows :
                  startedAtRef' = [startedAtRef EXCEPT ![u] = now]
            /\ sawStartedAt' = sawStartedAt \ {u}
       ELSE UNCHANGED <<endTimeMs, startedAtRef, sawStartedAt>>
    /\ UNCHANGED hostExits

\* index.tsx 923-939: the room listener delivers the current document
HostRoomSnapshot ==
    /\ screen[HostUid] = "room-host"
    /\ hostRoom' = << HostRoomView(room) >>
    /\ LET to == HostEffect(HostRoomView(room), "room-host")
       IN  /\ screen' = [screen EXCEPT ![HostUid] = to]
           /\ MountGame(HostUid, to, HostRoomView(room))
    /\ UNCHANGED <<storeVars, hostPlayers, histVars>>
    /\ UNCHANGED <<createVars, rankVars, hasPendingWrites>>

\* index.tsx 941-958: the players listener delivers the current roster
HostPlayersSnapshot ==
    /\ screen[HostUid] = "room-host"
    /\ hostPlayers' = Roster
    /\ UNCHANGED <<storeVars, screen, hostRoom, gameVars, histVars>>
    /\ UNCHANGED sideVars

\* index.tsx 988-996: setDuration(durationSec), pressed on a duration card
setDuration(durationSec) ==
    /\ screen[HostUid] = "room-host"
    /\ hostRoom # <<>>
    /\ hostRoom[1].status = "lobby"
    /\ room' = [room EXCEPT !.durationSec = durationSec]
    /\ hostRoom' = << HostRoomView(room') >>
    /\ UNCHANGED <<players, screen, hostPlayers, gameVars, histVars>>
    /\ UNCHANGED sideVars

\* mutant: handleStart's write without startedAt
StartUpdate_NoStartedAt(r, seed, count, ts) ==
    [ r EXCEPT !.status        = "in_progress",
               !.locked        = TRUE,
               !.seed          = seed,
               !.playerCount   = count,
               !.finishedCount = 0,
               !.endedReason   = NoReason ]

\* index.tsx 1015-1024: the fields handleStart writes with updateDoc
StartUpdate(r, seed, count, ts) ==
    [ r EXCEPT !.status        = "in_progress",
               !.locked        = TRUE,
               !.seed          = seed,
               !.playerCount   = count,
               !.finishedCount = 0,
               !.endedReason   = NoReason,
               !.startedAt     = ts ]

\* mutant: the host screen does not see its own write: `room` keeps the
\* lobby it rendered and the screen stays, so Start can be pressed again
handleStart_StaleRoom(draw) ==
    /\ screen[HostUid] = "room-host"
    /\ hostRoom # <<>>
    /\ isHost(HostUid)
    /\ hostRoom[1].status = "lobby" /\ ~hostRoom[1].locked
    /\ Cardinality(hostPlayers) >= 2
    /\ room.startedAt < 2
    /\ room' = StartUpdate(room, draw + 1, Cardinality(hostPlayers),
                            serverTimestamp(room.startedAt))
    /\ UNCHANGED <<players, screen, hostVars, gameVars, histVars>>
    /\ UNCHANGED sideVars

\* index.tsx 1003-1031 and the Start button 1192-1194: handleStart
handleStart(draw) ==
    /\ screen[HostUid] = "room-host"
    /\ hostRoom # <<>>
    /\ isHost(HostUid)
    /\ hostRoom[1].status = "lobby" /\ ~hostRoom[1].locked
    /\ Cardinality(hostPlayers) >= 2
    /\ room' = StartUpdate(room, draw + 1, Cardinality(hostPlayers),
                            serverTimestamp(room.startedAt))
    /\ hostRoom' = << HostRoomView(room') >>
    /\ LET to == HostEffect(HostRoomView(room'), "room-host")
       IN  /\ screen' = [screen EXCEPT ![HostUid] = to]
           /\ MountGame(HostUid, to, HostRoomView(room'))
    /\ hasPendingWrites' = IF HostUid \in Timed
                           THEN hasPendingWrites \cup {HostUid}
                           ELSE hasPendingWrites
    /\ UNCHANGED <<players, hostPlayers, histVars>>
    /\ UNCHANGED <<createVars, rankVars>>

\* mutant: handleLeaveAsHost's write without locked: true
LeaveAsHostUpdate_NoLock(r, ts) ==
    [ r EXCEPT !.status      = "ended",
               !.endedReason = "host_left",
               !.endedAt     = ts ]

\* index.tsx 1045-1051: the fields handleLeaveAsHost writes with updateDoc
LeaveAsHostUpdate(r, ts) ==
    [ r EXCEPT !.status      = "ended",
               !.endedReason = "host_left",
               !.endedAt     = ts,
               !.locked      = TRUE ]

\* one more entry of the history of writes that set status = 'ended'
Logged(by, old, new) ==
    Append(endedWrites,
           [ by |-> by, from |-> old.status, reason |-> new.endedReason,
             at |-> new.endedAt ])

\* mutant: handleLeaveAsHost without its router.replace: the host stays on
\* the room-host screen with the lobby it rendered
handleLeaveAsHost_NoReplace ==
    /\ screen[HostUid] = "room-host"
    /\ isHost(HostUid)
    /\ hostRoom # <<>>
    /\ room.endedAt = Null
    /\ room' = LeaveAsHostUpdate(room, serverTimestamp(room.endedAt))
    /\ endedWrites' = Append(endedWrites,
                          [ by |-> "handleLeaveAsHost", from |-> room.status,
                            reason |-> room'.endedReason, at |-> room'.endedAt ])
    /\ UNCHANGED <<players, screen, hostVars, gameVars, alerts, finishedTx>>
    /\ UNCHANGED sideVars

\* index.tsx 1033-1060 (back button 1077-1084): handleLeaveAsHost, confirmed
handleLeaveAsHost ==
    /\ screen[HostUid] = "room-host"
    /\ isHost(HostUid)
    /\ IF hostRoom = <<>>
       THEN /\ screen' = [screen EXCEPT ![HostUid] = "home"]
            /\ UNCHANGED <<storeVars, endedWrites>>
       ELSE /\ room' = LeaveAsHostUpdate(room, serverTimestamp(room.endedAt))
            /\ endedWrites' = Logged("handleLeaveAsHost", room, room')
            /\ screen' = [screen EXCEPT ![HostUid] = "room-result"]
            /\ UNCHANGED players
    /\ UNCHANGED <<hostVars, gameVars, alerts, finishedTx>>
    /\ UNCHANGED sideVars

\* ------------------------------------------------------- RoomJoinScreen

\* the Alert joinRoom shows before it returns, kept for the observed clients
Alert(u, title) ==
    IF u \in DOMAIN alerts THEN [alerts EXCEPT ![u] = title] ELSE alerts

\* room-join.tsx 64-88: Join pressed with a 6-character code: getDoc(room),
\* the exists check and the lobby / locked check.  A rejected client stays
\* on the join screen.
joinRoom_getRoom(u, code) ==
    /\ screen[u] = "home"
    /\ IF code # RoomCode
       THEN /\ alerts' = Alert(u, "Room not found")
            /\ UNCHANGED screen
       ELSE IF room.status # "lobby" \/ room.locked
       THEN /\ alerts' = Alert(u, "Room locked")
            /\ UNCHANGED screen
       ELSE /\ screen' = [screen EXCEPT ![u] = "join:getDocs"]
            /\ UNCHANGED alerts
    /\ UNCHANGED <<storeVars, hostVars, gameVars, endedWrites, finishedTx>>
    /\ UNCHANGED sideVars

\* mutant: the capacity check as size > maxPlayers
joinRoom_getPlayers_Greater(u) ==
    /\ screen[u] = "join:getDocs"
    /\ IF Cardinality(Roster) > room.maxPlayers
       THEN /\ alerts' = Alert(u, "Room full")
            /\ screen' = [screen EXCEPT ![u] = "home"]
       ELSE /\ screen' = [screen EXCEPT ![u] = "join:setDoc"]
            /\ UNCHANGED alerts
    /\ UNCHANGED <<storeVars, hostVars, gameVars, endedWrites, finishedTx>>
    /\ UNCHANGED sideVars

\* room-join.tsx 90-96: getDocs(players, limit(maxPlayers + 1)) and the
\* capacity check (maxPlayers is the value read by getDoc; it never changes)
joinRoom_getPlayers(u) ==
    /\ screen[u] = "join:getDocs"
    /\ IF Cardinality(Roster) >= room.maxPlayers
       THEN /\ alerts' = Alert(u, "Room full")
            /\ screen' = [screen EXCEPT ![u] = "home"]
       ELSE /\ screen' = [screen EXCEPT ![u] = "join:setDoc"]
            /\ UNCHANGED alerts
    /\ UNCHANGED <<storeVars, hostVars, gameVars, endedWrites, finishedTx>>
    /\ UNCHANGED sideVars

\* room-join.tsx 98-113: setDoc(player, {...}, {merge: true}), then /room-wait
joinRoom_setPlayer(u) ==
    /\ screen[u] = "join:setDoc"
    /\ players' = MergePlayer(uid(u), JoinFields)
    /\ screen' = [screen EXCEPT ![u] = "room-wait"]
    /\ UNCHANGED <<room, hostVars, gameVars, histVars>>
    /\ UNCHANGED sideVars

\* ------------------------------------------------------- RoomWaitScreen

\* mutant: the waiting screen stays when the room has ended
WaitEffect_StaysOnEnded(r, cur) ==
    IF r.status = "in_progress" /\ r.seed # Null /\ r.seed # 0
    THEN "game"
    ELSE cur

\* room-wait.tsx 49-59: the navigation effect on the values of a snapshot
WaitEffect(r, cur) ==
    IF r.status = "in_progress" /\ r.seed # Null /\ r.seed # 0
    THEN "game"
    ELSE IF r.status = "ended" THEN "room-result" ELSE cur

\* room-wait.tsx 26-47: the room listener delivers the current document
WaitRoomSnapshot(u) ==
    /\ screen[u] = "room-wait"
    /\ LET to == WaitEffect(room, "room-wait")
       IN  /\ screen' = [screen EXCEPT ![u] = to]
           /\ MountGame(u, to, room)
    /\ UNCHANGED <<storeVars, hostVars, histVars>>
    /\ UNCHANGED <<createVars, rankVars, hasPendingWrites>>

\* room-wait.tsx 61-75: leaveRoom deletes the player document, whatever the
\* room's status is, and goes home
leaveRoom(u) ==
    /\ screen[u] = "room-wait"
    /\ players' = [ v \in Roster \ {uid(u)} |-> players[v] ]
    /\ screen' = [screen EXCEPT ![u] = "home"]
    /\ UNCHANGED <<room, hostVars, gameVars, histVars>>
    /\ UNCHANGED sideVars

\* ----------------------------------------------------------- GameScreen

\* the GameScreen is mounted: playing, or finishGame is running, or its
\* transaction has returned and router.replace is the next statement
OnGame(u) == screen[u] \in {"game", "game:replace"}

\* mutant: a call of finishGame returns at once
finishGame_Returns(u, values) == UNCHANGED <<finishedRef, finishing>>

\* part_001 702-704: finishGame's guard; the first call sets finishedRef.
\* part_001 706-712: the call works on the score, solved and attempts of the
\* render that created it, here `values`.
finishGame(u, values) ==
    /\ finishedRef' = [finishedRef EXCEPT ![u] = TRUE]
    /\ finishing' = IF finishedRef[u] THEN finishing
                    ELSE [finishing EXCEPT ![u] = values]

\* part_001 917-937: handleSubmit on an answer that is correct or not.  An
\* answer given after finishGame has begun changes nothing that is read
\* again, so answers are followed up to that call.
handleSubmit(u, isCorrect) ==
    /\ OnGame(u)
    /\ ~finishedRef[u]
    /\ stats[u].attempts < MaxAnswers
    /\ stats' = [stats EXCEPT ![u] =
                   [ score    |-> IF isCorrect THEN @.score + Gain ELSE @.score,
                     solved   |-> IF isCorrect THEN @.solved + 1 ELSE @.solved,
                     attempts |-> @.attempts + 1 ]]
    /\ IF isCorrect
       THEN askQuestion(u, generators[u], FALSE)
       ELSE UNCHANGED genVars
    /\ UNCHANGED <<storeVars, screen, hostVars, roomHostUid, finishedRef,
                   closure, finishing, hostExits, histVars>>
    /\ UNCHANGED <<createVars, rankVars, timeVars>>

\* part_001 660-694: the room listener; a snapshot with status 'ended' calls
\* finishGame unless it has been called already.  The listener calls the
\* finishGame of the render in which its effect ran.  The first snapshot
\* sets endTimeMs, and the render that follows runs the effects of the
\* interval (643-658, on [endTimeMs]) and of the listener (on [roomCode,
\* endTimeMs, totalTime]) again, with the finishGame of that render; so does
\* every later change of endTimeMs.  Date.now() does not go back: a reading
\* taken by the fallback is not before the one taken at the mount.
GameRoomSnapshot(u) ==
    /\ OnGame(u)
    /\ roomHostUid' = [roomHostUid EXCEPT ![u] = room.hostUid]
    /\ IF u \in Timed
       THEN /\ \E now \in { n \in Nows :
                             \/ n >= startedAtRef[u]
                             \/ SnapshotFor(u).startedAt # Null
                             \/ endTimeMs[u] # Null } :
                  LET aligned == AlignEnd(SnapshotFor(u), endTimeMs[u],
                                          startedAtRef[u], now)
                  IN  /\ endTimeMs' = [endTimeMs EXCEPT
                                          ![u] = aligned.endTimeMs]
                      /\ startedAtRef' = [startedAtRef EXCEPT
                                             ![u] = aligned.startedAtRef]
            /\ sawStartedAt' = IF SnapshotFor(u).startedAt # Null
                               THEN sawStartedAt \cup {u}
                               ELSE sawStartedAt
       ELSE UNCHANGED <<endTimeMs, startedAtRef, sawStartedAt>>
    /\ IF room.status = "ended" /\ ~finishedRef[u]
       THEN finishGame(u, closure[u])
       ELSE UNCHANGED <<finishedRef, finishing>>
    /\ closure' = IF \/ roomHostUid[u] = NoUid
                     \/ u \in Timed /\ endTimeMs'[u] # endTimeMs[u]
                  THEN [closure EXCEPT ![u] = stats[u]]
                  ELSE closure
    /\ UNCHANGED <<storeVars, screen, hostVars, stats, hostExits, histVars>>
    /\ UNCHANGED <<createVars, genVars, rankVars, hasPendingWrites>>

\* the server answers the host's write of handleStart: the host's cached
\* room document takes the startedAt the server stamped, and its listeners
\* are served the document again
StartAcknowledged ==
    /\ HostUid \in hasPendingWrites
    /\ hasPendingWrites' = hasPendingWrites \ {HostUid}
    /\ UNCHANGED <<endTimeMs, startedAtRef, sawStartedAt>>
    /\ UNCHANGED <<roomVars, createVars, genVars, rankVars>>

\* part_001 643-658, 696-700: the countdown reaches zero.  The end instant of
\* a room game is set by the room listener only, so a snapshot came first.
\* The interval callback sets timeLeft to 0 and calls its finishGame in the
\* same tick; the effect on timeLeft === 0 runs after it and finds
\* finishedRef set.
TimerExpires(u) ==
    /\ OnGame(u)
    /\ roomHostUid[u] # NoUid
    /\ ~finishedRef[u]
    /\ finishGame(u, closure[u])
    /\ UNCHANGED <<storeVars, screen, hostVars, roomHostUid, stats, closure,
                   hostExits, histVars>>
    /\ UNCHANGED sideVars

\* mutant: handleExit's write without endedReason
ExitUpdate_NoReason(r, ts) ==
    [ r EXCEPT !.status      = "ended",
               !.endedAt     = ts,
               !.locked      = TRUE ]

\* part_001 885-891: the fields the host's handleExit writes with updateDoc
ExitUpdate(r, ts) ==
    [ r EXCEPT !.status      = "ended",
               !.endedReason = "host_left",
               !.endedAt     = ts,
               !.locked      = TRUE ]

\* part_001 870-871: isHost of handleExit
exitIsHost(u) ==
    roomHostUid[u] # NoUid /\ uid(u) = roomHostUid[u]

\* part_001 865-902: handleExit, confirmed in the alert
handleExit(u) ==
    /\ OnGame(u)
    /\ IF exitIsHost(u)
       THEN /\ hostExits < MaxHostExits
            /\ hostExits' = hostExits + 1
            /\ room' = ExitUpdate(room, serverTimestamp(room.endedAt))
            /\ endedWrites' = Logged("handleExit", room, room')
       ELSE UNCHANGED <<room, endedWrites, hostExits>>
    /\ finishGame(u, stats[u])
    /\ UNCHANGED <<players, screen, hostVars, roomHostUid, stats, closure,
                   alerts, finishedTx>>
    /\ UNCHANGED sideVars

\* part_001 706: accuracy, Math.round of the percentage (halves round up)
Accuracy(solved, attempts) ==
    IF attempts = 0 THEN 0
    ELSE (200 * solved + attempts) \div (2 * attempts)

\* part_001 804-817: the snapshot tx.set merges into the player document
FinishFields(values, ts) ==
    [ score      |-> values.score,
      attempts   |-> values.attempts,
      correct    |-> values.solved,
      accuracy   |-> Accuracy(values.solved, values.attempts),
      finishedAt |-> ts ]

\* mutant: the terminal test as nextFinished > playerCount
FinishRoomUpdate_Greater(r, alreadyFinished, ts) ==
    IF r.status # "in_progress" THEN r
    ELSE IF r.endedReason # NoReason THEN r
    ELSE IF alreadyFinished THEN r
    ELSE IF r.playerCount = Null \/ r.playerCount = 0 THEN r
    ELSE LET finishedCount == IF r.finishedCount = Null THEN 0
                              ELSE r.finishedCount
             nextFinished == finishedCount + 1
         IN  IF nextFinished > r.playerCount
             THEN [ r EXCEPT !.finishedCount = nextFinished,
                             !.status        = "ended",
                             !.endedReason   = "all_finished",
                             !.endedAt       = ts ]
             ELSE [ r EXCEPT !.finishedCount = nextFinished ]

\* mutant: the transaction without its status and endedReason early returns
FinishRoomUpdate_NoReturns(r, alreadyFinished, ts) ==
    IF alreadyFinished THEN r
    ELSE IF r.playerCount = Null \/ r.playerCount = 0 THEN r
    ELSE LET finishedCount == IF r.finishedCount = Null THEN 0
                              ELSE r.finishedCount
             nextFinished == finishedCount + 1
         IN  IF nextFinished >= r.playerCount
             THEN [ r EXCEPT !.finishedCount = nextFinished,
                             !.status        = "ended",
                             !.endedReason   = "all_finished",
                             !.endedAt       = ts ]
             ELSE [ r EXCEPT !.finishedCount = nextFinished ]

\* mutant: the transaction without its alreadyFinished early return
FinishRoomUpdate_CountsAgain(r, alreadyFinished, ts) ==
    IF r.status # "in_progress" THEN r
    ELSE IF r.endedReason # NoReason THEN r
    ELSE IF r.playerCount = Null \/ r.playerCount = 0 THEN r
    ELSE LET finishedCount == IF r.finishedCount = Null THEN 0
                              ELSE r.finishedCount
             nextFinished == finishedCount + 1
         IN  IF nextFinished >= r.playerCount
             THEN [ r EXCEPT !.finishedCount = nextFinished,
                             !.status        = "ended",
                             !.endedReason   = "all_finished",
                             !.endedAt       = ts ]
             ELSE [ r EXCEPT !.finishedCount = nextFinished ]

\* part_001 819-840: the room update of the finish transaction, or the room
\* as it is when one of the early returns is taken
FinishRoomUpdate(r, alreadyFinished, ts) ==
    IF r.status # "in_progress" THEN r
    ELSE IF r.endedReason # NoReason THEN r
    ELSE IF alreadyFinished THEN r
    ELSE IF r.playerCount = Null \/ r.playerCount = 0 THEN r
    ELSE LET finishedCount == IF r.finishedCount = Null THEN 0
                              ELSE r.finishedCount
             nextFinished == finishedCount + 1
         IN  IF nextFinished >= r.playerCount
             THEN [ r EXCEPT !.finishedCount = nextFinished,
                             !.status        = "ended",
                             !.endedReason   = "all_finished",
                             !.endedAt       = ts ]
             ELSE [ r EXCEPT !.finishedCount = nextFinished ]

\* part_001 793-842: the transaction finishGame runs after its statistics
\* writes
finishGame_runTransaction(u) ==
    /\ screen[u] = "game"
    /\ finishedRef[u]
    /\ LET alreadyFinished ==
               uid(u) \in Roster /\ players[uid(u)].finishedAt # Null
       IN  room' = FinishRoomUpdate(room, alreadyFinished,
                                    serverTimestamp(room.endedAt))
    /\ players' = MergePlayer(uid(u), FinishFields(finishing[u],
                      serverTimestamp(
                          IF uid(u) \in Roster THEN players[uid(u)].finishedAt
                          ELSE Null)))
    /\ endedWrites' = IF room'.endedAt # room.endedAt
                      THEN Logged("finishGame", room, room')
                      ELSE endedWrites
    /\ finishedTx' = finishedTx \cup {u}
    /\ screen' = [screen EXCEPT ![u] = "game:replace"]
    /\ UNCHANGED <<hostVars, gameVars, alerts>>
    /\ UNCHANGED sideVars

\* part_001 713-845: the store rejects one of the awaited statistics calls of
\* finishGame (getDoc of users/{uid} at 717, the setDoc of the game at 730
\* or of the user at 746): the call throws inside the try that also holds
\* the room transaction, the catch at 843 logs, and router.replace is the
\* next statement.  The store answers in every specification but
\* FailureSpec.
finishGame_catch(u) ==
    /\ screen[u] = "game"
    /\ finishedRef[u]
    /\ screen' = [screen EXCEPT ![u] = "game:replace"]
    /\ UNCHANGED <<storeVars, hostVars, gameVars, histVars>>
    /\ UNCHANGED sideVars

\* part_001 848-851: finishGame's router.replace to /room-result
finishGame_replace(u) ==
    /\ screen[u] = "game:replace"
    /\ screen' = [screen EXCEPT ![u] = "room-result"]
    /\ UNCHANGED <<storeVars, hostVars, gameVars, histVars>>
    /\ UNCHANGED sideVars

\* /room-result is the last screen of a client: it only reads.  Its buttons
\* lead home, and a joinRoom on this room from there is rejected, because a
\* client reaches /room-result only when the room has left the lobby.

\* ------------------------------------------------------------------ Next
Next ==
    \/ HostRoomSnapshot
    \/ HostPlayersSnapshot
    \/ \E d \in DurationInputs : setDuration(d)
    \/ \E draw \in RandomDraws : handleStart(draw)
    \/ handleLeaveAsHost
    \/ \E u \in Users :
          \/ \E code \in Codes : joinRoom_getRoom(u, code)
          \/ joinRoom_getPlayers(u)
          \/ joinRoom_setPlayer(u)
          \/ WaitRoomSnapshot(u)
          \/ leaveRoom(u)
          \/ GameRoomSnapshot(u)
          \/ TimerExpires(u)
          \/ handleExit(u)
          \/ finishGame_runTransaction(u)
          \/ finishGame_replace(u)

Spec == Init /\ [][Next]_vars

\* What runs without a user's decision: listeners deliver their snapshots,
\* the steps after an await run when the store has answered, and the
\* countdown of a mounted GameScreen reaches zero.  Pressing a button
\* (Start, Leave, Exit, a duration, Join, an answer) is never forced.
Fairness ==
    /\ WF_vars(HostRoomSnapshot)
    /\ WF_vars(HostPlayersSnapshot)
    /\ \A u \in Users :
          /\ WF_vars(joinRoom_getPlayers(u))
          /\ WF_vars(joinRoom_setPlayer(u))
          /\ WF_vars(WaitRoomSnapshot(u))
          /\ WF_vars(GameRoomSnapshot(u))
          /\ WF_vars(TimerExpires(u))
          /\ WF_vars(finishGame_runTransaction(u))
          /\ WF_vars(finishGame_replace(u))

LiveSpec == Init /\ [][Next]_vars /\ Fairness

\* -------------------------------------------------- the lobby, nearly full
\* Players who joined before and sit on /room-wait without pressing
\* anything: with the creator they fill all places of the room but one.
SeatedNames == <<"p1", "p2", "p3", "p4", "p5", "p6">>
Seated == { SeatedNames[i] : i \in 1..(MaxPlayers - 2) }

\* the player document a completed joinRoom leaves
JoinedPlayerDoc ==
    [ isHost |-> FALSE, score |-> 0, attempts |-> 0, correct |-> 0,
      accuracy |-> 0, finishedAt |-> Null ]

\* the state after createRoom and the joins of the seated players, with the
\* alerts of every client recorded
LobbyInit ==
    /\ room = NewRoomDoc(HostUid)
    /\ players = [ v \in {HostUid} \cup Seated |->
                     IF v = HostUid THEN HostPlayerDoc ELSE JoinedPlayerDoc ]
    /\ screen = [ u \in Users |-> IF u = HostUid THEN "room-host" ELSE "home" ]
    /\ hostRoom = <<>>
    /\ hostPlayers = {}
    /\ roomHostUid = [ u \in Users |-> NoUid ]
    /\ finishedRef = [ u \in Users |-> FALSE ]
    /\ GameUnmounted(Users)
    /\ hostExits = 0
    /\ alerts = [ u \in Users |-> "none" ]
    /\ endedWrites = <<>>
    /\ finishedTx = {}
    /\ SideIdle

\* the handlers of the room-host, room-join and room-wait screens; a client
\* that has reached /game or /room-result is not followed further
LobbyNext ==
    \/ HostRoomSnapshot
    \/ HostPlayersSnapshot
    \/ \E draw \in RandomDraws : handleStart(draw)
    \/ handleLeaveAsHost
    \/ \E u \in Users :
          \/ \E code \in Codes : joinRoom_getRoom(u, code)
          \/ joinRoom_getPlayers(u)
          \/ joinRoom_setPlayer(u)
          \/ WaitRoomSnapshot(u)
          \/ leaveRoom(u)

LobbySpec == LobbyInit /\ [][LobbyNext]_vars

\* ------------------------------------------- the lobby of a room of two
\* The scenario room: joinRoom takes maxPlayers from the room document, here
\* a document whose maxPlayers is 2 (createRoom itself always writes 8).
ScenarioMaxPlayers == 2

TwoSeatInit ==
    /\ room = [ NewRoomDoc(HostUid) EXCEPT !.maxPlayers = ScenarioMaxPlayers ]
    /\ players = [ v \in {HostUid} |-> HostPlayerDoc ]
    /\ screen = [ u \in Users |-> IF u = HostUid THEN "room-host" ELSE "home" ]
    /\ hostRoom = <<>>
    /\ hostPlayers = {}
    /\ roomHostUid = [ u \in Users |-> NoUid ]
    /\ finishedRef = [ u \in Users |-> FALSE ]
    /\ GameUnmounted(Users)
    /\ hostExits = 0
    /\ alerts = [ u \in Users |-> "none" ]
    /\ endedWrites = <<>>
    /\ finishedTx = {}
    /\ SideIdle

TwoSeatSpec == TwoSeatInit /\ [][LobbyNext]_vars

\* ------------------------------------- one identity signed in on two devices
RetryClients == {HostUid, GuestNames[1], SecondSession}

RetryInit ==
    /\ room = NewRoomDoc(HostUid)
    /\ players = [ v \in {HostUid} |-> HostPlayerDoc ]
    /\ screen = [ c \in RetryClients |->
                    IF c = HostUid THEN "room-host" ELSE "home" ]
    /\ hostRoom = <<>>
    /\ hostPlayers = {}
    /\ roomHostUid = [ c \in RetryClients |-> NoUid ]
    /\ finishedRef = [ c \in RetryClients |-> FALSE ]
    /\ GameUnmounted(RetryClients)
    /\ hostExits = 0
    /\ alerts = <<>>
    /\ endedWrites = <<>>
    /\ finishedTx = {}
    /\ SideIdle

RetryNext ==
    \/ HostRoomSnapshot
    \/ HostPlayersSnapshot
    \/ \E d \in DurationInputs : setDuration(d)
    \/ \E draw \in RandomDraws : handleStart(draw)
    \/ handleLeaveAsHost
    \/ \E c \in RetryClients :
          \/ \E code \in Codes : joinRoom_getRoom(c, code)
          \/ joinRoom_getPlayers(c)
          \/ joinRoom_setPlayer(c)
          \/ WaitRoomSnapshot(c)
          \/ leaveRoom(c)
          \/ GameRoomSnapshot(c)
          \/ TimerExpires(c)
          \/ handleExit(c)
          \/ \E isCorrect \in BOOLEAN : handleSubmit(c, isCorrect)
          \/ finishGame_runTransaction(c)
          \/ finishGame_replace(c)

RetrySpec == RetryInit /\ [][RetryNext]_vars

\* ------------------------------------------------- a match, from its start
\* the state after createRoom, the join of the guest and handleStart, when
\* the devices in C have followed the room to /game
GameStarted(C) ==
    /\ room = StartUpdate(NewRoomDoc(HostUid), 1, 2, serverTimestamp(Null))
    /\ players = [ v \in {HostUid, GuestNames[1]} |->
                     IF v = HostUid THEN HostPlayerDoc ELSE JoinedPlayerDoc ]
    /\ screen = [ c \in C |-> "game" ]
    /\ hostRoom = << HostRoomView(room) >>
    /\ hostPlayers = {HostUid, GuestNames[1]}
    /\ roomHostUid = [ c \in C |-> NoUid ]
    /\ finishedRef = [ c \in C |-> FALSE ]
    /\ GameUnmounted(C)
    /\ hostExits = 0
    /\ alerts = <<>>
    /\ endedWrites = <<>>
    /\ finishedTx = {}
    /\ SideIdle

\* the handlers of the GameScreen of device c
GameStep(c) ==
    \/ GameRoomSnapshot(c)
    \/ \E isCorrect \in BOOLEAN : handleSubmit(c, isCorrect)
    \/ TimerExpires(c)
    \/ handleExit(c)
    \/ finishGame_runTransaction(c)
    \/ finishGame_replace(c)

\* the two players of the roster, one device each
GameClients == {HostUid, GuestNames[1]}
GameInit == GameStarted(GameClients)
GameNext == \E c \in GameClients : GameStep(c)
GameSpec == GameInit /\ [][GameNext]_vars

\* the guest plays the match on two devices; the host's device is not
\* followed
RefinishClients == {GuestNames[1], SecondSession}
RefinishInit == GameStarted(RefinishClients)
RefinishNext == \E c \in RefinishClients : GameStep(c)
RefinishSpec == RefinishInit /\ [][RefinishNext]_vars

\* ------------------------------------- a match, with its questions followed
\* the host and one guest, from the lobby in which the guest waits to the
\* end of their match; the generator of each GameScreen is followed
QuizClients == {HostUid, GuestNames[1]}

\* the state after createRoom and the guest's joinRoom, before the host's
\* listeners have delivered; no GameScreen is mounted, and the entries of
\* generators are made at the mount
QuizInit ==
    /\ room = NewRoomDoc(HostUid)
    /\ players = [ v \in QuizClients |->
                     IF v = HostUid THEN HostPlayerDoc ELSE JoinedPlayerDoc ]
    /\ screen = [ c \in QuizClients |->
                    IF c = HostUid THEN "room-host" ELSE "room-wait" ]
    /\ hostRoom = <<>>
    /\ hostPlayers = {}
    /\ roomHostUid = [ c \in QuizClients |-> NoUid ]
    /\ finishedRef = [ c \in QuizClients |-> FALSE ]
    /\ GameUnmounted(QuizClients)
    /\ hostExits = 0
    /\ alerts = <<>>
    /\ endedWrites = <<>>
    /\ finishedTx = {}
    /\ generators = [ c \in QuizClients |-> MathRandom ]
    /\ produced = [ c \in QuizClients |-> <<>> ]
    /\ CreateIdle
    /\ RankIdle
    /\ TimeIdle

QuizNext ==
    \/ HostRoomSnapshot
    \/ HostPlayersSnapshot
    \/ \E draw \in RandomDraws : handleStart(draw)
    \/ WaitRoomSnapshot(GuestNames[1])
    \/ \E c \in QuizClients : GameStep(c)

QuizSpec == QuizInit /\ [][QuizNext]_vars

\* ------------------------------------ a match, with its countdown followed
\* the host and one guest, from the lobby in which the guest waits; the end
\* instant of each GameScreen is followed
CountdownClients == {HostUid, GuestNames[1]}

\* the state after createRoom and the guest's joinRoom, before the host's
\* listeners have delivered; no GameScreen is mounted, and no write is
\* pending
CountdownInit ==
    /\ room = NewRoomDoc(HostUid)
    /\ players = [ v \in CountdownClients |->
                     IF v = HostUid THEN HostPlayerDoc ELSE JoinedPlayerDoc ]
    /\ screen = [ c \in CountdownClients |->
                    IF c = HostUid THEN "room-host" ELSE "room-wait" ]
    /\ hostRoom = <<>>
    /\ hostPlayers = {}
    /\ roomHostUid = [ c \in CountdownClients |-> NoUid ]
    /\ finishedRef = [ c \in CountdownClients |-> FALSE ]
    /\ GameUnmounted(CountdownClients)
    /\ hostExits = 0
    /\ alerts = <<>>
    /\ endedWrites = <<>>
    /\ finishedTx = {}
    /\ endTimeMs = [ c \in CountdownClients |-> Null ]
    /\ startedAtRef = [ c \in CountdownClients |-> Null ]
    /\ hasPendingWrites = {}
    /\ sawStartedAt = {}
    /\ CreateIdle
    /\ GenIdle
    /\ RankIdle

CountdownNext ==
    \/ HostRoomSnapshot
    \/ HostPlayersSnapshot
    \/ \E d \in DurationInputs : setDuration(d)
    \/ \E draw \in RandomDraws : handleStart(draw)
    \/ StartAcknowledged
    \/ WaitRoomSnapshot(GuestNames[1])
    \/ \E c \in CountdownClients :
          \/ GameRoomSnapshot(c)
          \/ TimerExpires(c)
          \/ handleExit(c)
          \/ finishGame_runTransaction(c)
          \/ finishGame_replace(c)

CountdownSpec == CountdownInit /\ [][CountdownNext]_vars

\* ------------------------------------- a match, on a store that can refuse
\* the match of GameSpec, when the statistics calls of a finish can fail
FailureNext ==
    \E c \in GameClients :
       \/ GameStep(c)
       \/ finishGame_catch(c)

FailureSpec == GameInit /\ [][FailureNext]_vars

\* ------------------------------------------ a room, watched until its end
\* the host and one guest, from the lobby in which the guest waits, with
\* every way of the room to its end: the host leaves the lobby, the host
\* exits the match, or both players finish
WatchClients == {HostUid, GuestNames[1]}

\* the state after createRoom and the guest's joinRoom, before the host's
\* listeners have delivered
WatchInit ==
    /\ room = NewRoomDoc(HostUid)
    /\ players = [ v \in WatchClients |->
                     IF v = HostUid THEN HostPlayerDoc ELSE JoinedPlayerDoc ]
    /\ screen = [ c \in WatchClients |->
                    IF c = HostUid THEN "room-host" ELSE "room-wait" ]
    /\ hostRoom = <<>>
    /\ hostPlayers = {}
    /\ roomHostUid = [ c \in WatchClients |-> NoUid ]
    /\ finishedRef = [ c \in WatchClients |-> FALSE ]
    /\ GameUnmounted(WatchClients)
    /\ hostExits = 0
    /\ alerts = <<>>
    /\ endedWrites = <<>>
    /\ finishedTx = {}
    /\ SideIdle

WatchNext ==
    \/ HostRoomSnapshot
    \/ HostPlayersSnapshot
    \/ \E draw \in RandomDraws : handleStart(draw)
    \/ handleLeaveAsHost
    \/ WaitRoomSnapshot(GuestNames[1])
    \/ leaveRoom(GuestNames[1])
    \/ \E c \in WatchClients : GameStep(c)

\* as in Fairness: the listeners, the steps after an await and the countdown
WatchFairness ==
    /\ WF_vars(HostRoomSnapshot)
    /\ WF_vars(HostPlayersSnapshot)
    /\ WF_vars(WaitRoomSnapshot(GuestNames[1]))
    /\ \A c \in WatchClients :
          /\ WF_vars(GameRoomSnapshot(c))
          /\ WF_vars(TimerExpires(c))
          /\ WF_vars(finishGame_runTransaction(c))
          /\ WF_vars(finishGame_replace(c))

WatchSpec == WatchInit /\ [][WatchNext]_vars /\ WatchFairness

\* the room screens at rest: no client is on a screen of a room
RoomIdle ==
    /\ room = <<>>
    /\ players = <<>>
    /\ screen = <<>>
    /\ hostRoom = <<>>
    /\ hostPlayers = {}
    /\ roomHostUid = <<>>
    /\ finishedRef = <<>>
    /\ stats = <<>>
    /\ closure = <<>>
    /\ finishing = <<>>
    /\ hostExits = 0
    /\ alerts = <<>>
    /\ endedWrites = <<>>
    /\ finishedTx = {}

\* ---------------------------------------------------------- FriendsModal
\* friends.tsx 52: for (let attempt = 0; attempt < 8; attempt++)
MaxCreateAttempts == 8

\* generateRoomCode() draws 6 characters of CODE_ALPHABET with Math.random;
\* the codes drawn in the model
CodeDraws == {"ABCDEF", "ABCDE2"}

\* the clients that press Create Room, and the creator of the rooms that
\* exist before
Creators == {HostUid, GuestNames[1]}
EarlierCreator == "p1"

\* the rooms collection before: any of the codes may be taken already
CreateInit ==
    /\ \E taken \in SUBSET CodeDraws :
          /\ rooms = [ code \in taken |-> NewRoomDoc(EarlierCreator) ]
          /\ roomPlayers = [ code \in taken |->
                               [ v \in {EarlierCreator} |-> HostPlayerDoc ] ]
    /\ creators = [ c \in Creators |->
                      [ pc |-> "friends", attempt |-> 0, code |-> "",
                        alert |-> "none" ] ]
    /\ RoomIdle
    /\ GenIdle
    /\ RankIdle
    /\ TimeIdle

\* friends.tsx 41-56 and 82: Create Room pressed, or the next turn of the
\* loop: a code is drawn and getDoc(roomRef) is awaited.  A code that exists
\* costs an attempt; after the last attempt the Alert 'Try again' is shown.
createRoom_getDoc(c, code) ==
    /\ creators[c].pc \in {"friends", "createRoom:loop"}
    /\ creators[c].attempt < MaxCreateAttempts
    /\ creators' = [creators EXCEPT ![c] =
          IF code \notin DOMAIN rooms
          THEN [@ EXCEPT !.pc = "createRoom:setRoom", !.code = code]
          ELSE IF @.attempt + 1 < MaxCreateAttempts
          THEN [@ EXCEPT !.pc = "createRoom:loop", !.attempt = @ + 1]
          ELSE [@ EXCEPT !.pc = "friends", !.attempt = 0,
                         !.alert = "Try again"] ]
    /\ UNCHANGED <<rooms, roomPlayers, roomVars, genVars, rankVars,
                   timeVars>>

\* friends.tsx 57-67: setDoc(roomRef, {...}) writes the whole room document,
\* whether or not one exists by now
createRoom_setRoom(c) ==
    /\ creators[c].pc = "createRoom:setRoom"
    /\ rooms' = [ code \in DOMAIN rooms \cup {creators[c].code} |->
                    IF code = creators[c].code THEN NewRoomDoc(c)
                    ELSE rooms[code] ]
    /\ creators' = [creators EXCEPT ![c].pc = "createRoom:setPlayer"]
    /\ UNCHANGED <<roomPlayers, roomVars, genVars, rankVars,
                   timeVars>>

\* friends.tsx 69-80: setDoc(players/uid, {...}) writes the creator's player
\* document, then router.replace to /room-host
createRoom_setPlayer(c) ==
    /\ creators[c].pc = "createRoom:setPlayer"
    /\ LET code == creators[c].code
           old == IF code \in DOMAIN roomPlayers THEN roomPlayers[code]
                  ELSE <<>>
           new == [ v \in DOMAIN old \cup {uid(c)} |->
                      IF v = uid(c) THEN HostPlayerDoc ELSE old[v] ]
       IN  roomPlayers' = [ k \in DOMAIN roomPlayers \cup {code} |->
                              IF k = code THEN new ELSE roomPlayers[k] ]
    /\ creators' = [creators EXCEPT ![c].pc = "room-host"]
    /\ UNCHANGED <<rooms, roomVars, genVars, rankVars,
                   timeVars>>

CreateNext ==
    \E c \in Creators :
       \/ \E code \in CodeDraws : createRoom_getDoc(c, code)
       \/ createRoom_setRoom(c)
       \/ createRoom_setPlayer(c)

CreateSpec == CreateInit /\ [][CreateNext]_vars

\* ------------------------------------------ the generator, instance by instance
\* the generator instances followed, the seeds they are made with and the
\* questions asked of each
Instances == {"first", "second"}
Seeds == {1, 12345, MAX_SEED}
MaxQuestions == 4

\* the questions of seed s, as one instance alone produces them
RECURSIVE SequenceOf(_, _)
SequenceOf(t, n) ==
    IF n = 0 THEN <<>>
    ELSE CHOOSE s \in { << g.question >> \o SequenceOf(g.t, n - 1) :
                        g \in {generateQuestion(t)} } : TRUE

\* part_001 619: every instance is made by mulberry32(seed), with its own t
GenInit ==
    /\ generators \in [ Instances ->
                          { [ seed |-> s, t |-> Word(s) ] : s \in Seeds } ]
    /\ produced = [ g \in Instances |-> <<>> ]
    /\ RoomIdle
    /\ CreateIdle
    /\ RankIdle
    /\ TimeIdle

\* mutant: the question is drawn with Math.random, as GameScreen does without
\* a seed: any numerators, and t is not used
NextQuestion_MathRandom(g) ==
    /\ Len(produced[g]) < MaxQuestions
    /\ \E u \in { Word(s) : s \in Seeds } :
          produced' = [produced EXCEPT ![g] =
                          Append(@, generateQuestion(u).question)]
    /\ UNCHANGED <<generators, roomVars, createVars, rankVars, timeVars>>

\* part_001 622 and 926: generateQuestion(rng) is called on instance g, for
\* the first question or for the one after a correct answer
NextQuestion(g) ==
    /\ Len(produced[g]) < MaxQuestions
    /\ LET q == generateQuestion(generators[g].t)
       IN  /\ generators' = [generators EXCEPT ![g].t = q.t]
           /\ produced' = [produced EXCEPT ![g] = Append(@, q.question)]
    /\ UNCHANGED <<roomVars, createVars, rankVars, timeVars>>

GenNext == \E g \in Instances : NextQuestion(g)

GenSpec == GenInit /\ [][GenNext]_vars

\* ------------------------------------ the generator, over results of any rng
\* A game without a seed calls generateQuestion on Math.random (part_001
\* 619), whose results are not bound to a sequence: the question is followed
\* for every category and every operand the coded ranges allow.

\* the numerator of the least result of rng() that randInt maps to the k-th
\* value of a range of n values: the ceiling of k * 2^32 / n
Numerator(k, n) ==
    << (k * Half) \div n, (((k * Half) % n) * Half + n - 1) \div n >>

\* the results tried at the second, third and fourth call of rng() of a
\* question of category op: the fractions k/n for k in 0..n-1, with n the
\* number of values of the coded range (part_001 530-581), 2 for the test
\* of isRoot, 30 = 5 x 6 for the two ranges of 'cube', and 1 for a call the
\* category does not make
CallRanges(op) ==
    CASE op = "add"    -> << 126, 106, 1 >>
      [] op = "sub"    -> << 101, 71, 1 >>
      [] op = "mul"    -> << 9, 9, 1 >>
      [] op = "div"    -> << 10, 13, 1 >>
      [] op = "lcm"    -> << 9, 10, 1 >>
      [] op = "hcf"    -> << 11, 9, 9 >>
      [] op = "hpf"    -> << 161, 1, 1 >>
      [] op = "square" -> << 2, 10, 1 >>
      [] op = "cube"   -> << 2, 30, 1 >>

\* the game without a seed
Solo == "solo"

SoloInit ==
    /\ generators = [ g \in {Solo} |-> MathRandom ]
    /\ produced = [ g \in {Solo} |-> <<>> ]
    /\ RoomIdle
    /\ CreateIdle
    /\ RankIdle
    /\ TimeIdle

\* part_001 622: generateQuestion(Math.random) for the first question, when
\* the calls of Math.random return the k-th fractions of their ranges
SoloQuestion(k1, k2, k3, k4) ==
    /\ produced[Solo] = <<>>
    /\ LET op == operations[k1 + 1]
           result(k, n) == [ t |-> MathRandom.t, value |-> Numerator(k, n) ]
           q == QuestionFrom(result(k1, Len(operations)),
                             result(k2, CallRanges(op)[1]),
                             result(k3, CallRanges(op)[2]),
                             result(k4, CallRanges(op)[3]))
       IN  produced' = [produced EXCEPT ![Solo] = << q.question >>]
    /\ UNCHANGED <<generators, roomVars, createVars, rankVars, timeVars>>

\* the first question of the game is followed
SoloNext ==
    /\ produced[Solo] = <<>>
    /\ \E k1 \in 0..(Len(operations) - 1) :
          \E k2 \in 0..(CallRanges(operations[k1 + 1])[1] - 1),
             k3 \in 0..(CallRanges(operations[k1 + 1])[2] - 1),
             k4 \in 0..(CallRanges(operations[k1 + 1])[3] - 1) :
             SoloQuestion(k1, k2, k3, k4)

SoloSpec == SoloInit /\ [][SoloNext]_vars

\* ------------------------------------------------------- RoomResultScreen
\* the players of the result list, the names they can carry, in the order
\* localeCompare gives them, and what a finished match has left them
ResultUids == {"A", "B", "C"}
DisplayNames == << "Ann", "Math Wizard" >>
ResultScores == {80, 100}
ResultAccuracies == {90, 95, 99}

\* auth.currentUser.uid on the device that shows the result
MyUid == "A"

\* room-result.tsx 85-91: a PlayerResult of the list (attempts is carried
\* along and not read by computeRanks)
PlayerResult(id, name, score, accuracy) ==
    [ uid |-> id, displayName |-> name, score |-> score,
      accuracy |-> accuracy ]

\* a.localeCompare(b): negative, zero or positive by the collation order
localeCompare(a, b) ==
    LET index(name) == CHOOSE i \in 1..Len(DisplayNames) :
                           DisplayNames[i] = name
    IN  index(a) - index(b)

\* mutant: the comparator with accuracy before score
compare_AccuracyFirst(a, b) ==
    IF b.accuracy # a.accuracy THEN b.accuracy - a.accuracy
    ELSE IF b.score # a.score THEN b.score - a.score
    ELSE localeCompare(a.displayName, b.displayName)

\* room-result.tsx 25-29: the comparator given to sort
compare(a, b) ==
    IF b.score # a.score THEN b.score - a.score
    ELSE IF b.accuracy # a.accuracy THEN b.accuracy - a.accuracy
    ELSE localeCompare(a.displayName, b.displayName)

RECURSIVE InsertSorted(_, _)
\* x, which came later in the input, goes behind every entry it does not
\* precede: Array.prototype.sort is stable
InsertSorted(sorted, x) ==
    IF sorted = <<>> THEN << x >>
    ELSE IF compare(Head(sorted), x) <= 0
         THEN << Head(sorted) >> \o InsertSorted(Tail(sorted), x)
         ELSE << x >> \o sorted

RECURSIVE Sort(_)
\* room-result.tsx 25: [...players].sort(compare)
Sort(list) ==
    IF list = <<>> THEN <<>>
    ELSE InsertSorted(Sort(SubSeq(list, 1, Len(list) - 1)), list[Len(list)])

\* mutant: the accuracy of the first entry instead of the highest
topAccuracy_OfLeader(sorted, max) ==
    IF sorted = <<>> THEN max ELSE sorted[1].accuracy

RECURSIVE topAccuracy(_, _)
\* room-result.tsx 31: sorted.reduce((max, p) => Math.max(max, p.accuracy), 0)
topAccuracy(sorted, max) ==
    IF sorted = <<>> THEN max
    ELSE topAccuracy(Tail(sorted),
                     IF Head(sorted).accuracy > max THEN Head(sorted).accuracy
                     ELSE max)

RECURSIVE Ranks_Dense(_, _, _, _, _)
\* mutant: a new group takes the rank after the previous group's
Ranks_Dense(sorted, index, lastScore, lastAcc, currentRank) ==
    IF index > Len(sorted) THEN <<>>
    ELSE LET p == sorted[index]
             rank == IF lastScore = p.score /\ lastAcc = p.accuracy
                     THEN currentRank
                     ELSE currentRank + 1
         IN  << rank >> \o Ranks_Dense(sorted, index + 1, p.score,
                                        p.accuracy, rank)

RECURSIVE Ranks(_, _, _, _, _)
\* room-result.tsx 33-43: the rank of the entries from `index` on (counted
\* from 1, the code's index + 1), with lastScore, lastAcc and currentRank
\* as the loop has left them
Ranks(sorted, index, lastScore, lastAcc, currentRank) ==
    IF index > Len(sorted) THEN <<>>
    ELSE LET p == sorted[index]
             rank == IF lastScore = p.score /\ lastAcc = p.accuracy
                     THEN currentRank
                     ELSE index
         IN  << rank >> \o Ranks(sorted, index + 1, p.score, p.accuracy,
                                  rank)

\* room-result.tsx 24-52: computeRanks
computeRanks(list, myUid) ==
    LET sorted == Sort(list)
        top    == topAccuracy(sorted, 0)
        ranks  == Ranks(sorted, 1, Null, Null, 0)
    IN  [ i \in 1..Len(sorted) |->
            [ uid           |-> sorted[i].uid,
              displayName   |-> sorted[i].displayName,
              score         |-> sorted[i].score,
              accuracy      |-> sorted[i].accuracy,
              rank          |-> ranks[i],
              isWinner      |-> ranks[i] = 1,
              isTopAccuracy |-> sorted[i].accuracy = top,
              isMe          |-> myUid # NoUid /\ sorted[i].uid = myUid ] ]

\* room-result.tsx 104: winner = ranked.find((p) => p.rank === 1) ?? null,
\* with <<>> for null
winner ==
    LET first == { i \in DOMAIN ranked : ranked[i].rank = 1 }
    IN  IF first = {} THEN <<>>
        ELSE << ranked[CHOOSE i \in first : \A j \in first : i <= j] >>

\* the lists the query can deliver to a screen that has just been mounted:
\* the players in the order of their joins, each with the score and the
\* accuracy 0 of joinRoom and createRoom
JoinedRows ==
    { PlayerResult(id, DisplayNames[n], 0, 0) :
        id \in ResultUids, n \in DOMAIN DisplayNames }

JoinedLists ==
    { list \in UNION { [1..n -> JoinedRows] : n \in 1..Cardinality(ResultUids) } :
        \A i, j \in DOMAIN list : list[i].uid = list[j].uid => i = j }

\* the lists that can follow `list`: one player's finish transaction has
\* written a score and an accuracy
AfterFinish(list) ==
    { [ list EXCEPT ![i].score = s, ![i].accuracy = a ] :
        i \in DOMAIN list, s \in ResultScores, a \in ResultAccuracies }

\* the screen as it is first rendered: players = [] and ranked = []
RankInit ==
    /\ resultPlayers = <<>>
    /\ ranked = computeRanks(<<>>, MyUid)
    /\ RoomIdle
    /\ CreateIdle
    /\ GenIdle
    /\ TimeIdle

\* room-result.tsx 78-96 and 103: the players listener delivers the list,
\* setPlayers stores it and the render recomputes ranked
ResultPlayersSnapshot(list) ==
    /\ resultPlayers' = list
    /\ ranked' = computeRanks(list, MyUid)
    /\ UNCHANGED <<roomVars, createVars, genVars, timeVars>>

RankNext ==
    \E list \in IF resultPlayers = <<>> THEN JoinedLists
                ELSE AfterFinish(resultPlayers) :
       ResultPlayersSnapshot(list)

RankSpec == RankInit /\ [][RankNext]_vars

\* ================================================================ claims

\* the entries of the history written by `by`
WritesBy(by) == { i \in DOMAIN endedWrites : endedWrites[i].by = by }

HostAbandoned ==
    WritesBy("handleExit") \cup WritesBy("handleLeaveAsHost") # {}

\* C1: exactly-once terminal transition.  At most one finish transaction
\* ever writes status = 'ended', and it writes it over 'in_progress'; and
\* once as many distinct players as playerCount have committed their finish
\* transaction in a room the host has not abandoned, the room is ended with
\* finishedCount = playerCount and endedReason = 'all_finished', by exactly
\* one such write.
C1_ExactlyOnceTerminal ==
    /\ Cardinality(WritesBy("finishGame")) <= 1
    /\ \A i \in WritesBy("finishGame") :
          /\ endedWrites[i].from = "in_progress"
          /\ endedWrites[i].reason = "all_finished"
    /\ (room.playerCount # Null
          /\ Cardinality(finishedTx) >= room.playerCount
          /\ ~HostAbandoned)
       => /\ room.status = "ended"
          /\ room.finishedCount = room.playerCount
          /\ room.endedReason = "all_finished"
          /\ Cardinality(WritesBy("finishGame")) = 1
          /\ room.endedAt = 1

\* C1 witness: every player of the count has finished, concurrently (the
\* last two transactions ran while both clients were inside finishGame), and
\* the room was closed by one transaction
C1_Witness ==
    /\ room.playerCount # Null
    /\ Cardinality(finishedTx) = room.playerCount
    /\ ~HostAbandoned
    /\ room.status = "ended"
    /\ Cardinality(WritesBy("finishGame")) = 1
    /\ \A u \in finishedTx : screen[u] = "game:replace"

\* C2 (as claimed): the write that closes the room with 'all_finished'
\* happens only when every Player record of the roster has finishedAt set.
C2_AllFinishedMeansAllDone ==
    [][ (room.endedReason # "all_finished"
           /\ room'.endedReason = "all_finished")
        => \A u \in DOMAIN players' : players'[u].finishedAt # Null ]_vars

\* C3 (as claimed): once the match has started, playerCount is the number of
\* Player records of the roster, and stays so.
C3_PlayerCountIsRosterSize ==
    room.startedAt # Null => room.playerCount = Cardinality(Roster)

StatusRank(st) ==
    IF st = "lobby" THEN 0 ELSE IF st = "in_progress" THEN 1 ELSE 2

\* C4: room status is monotonic: no step moves it back along
\* lobby -> in_progress -> ended.
C4_StatusMonotonic ==
    [][ StatusRank(room'.status) >= StatusRank(room.status) ]_vars

\* C4 witness: a room that went through all three statuses and on which a
\* finish transaction and a host exit have run since
C4_Witness ==
    /\ room.status = "ended"
    /\ room.startedAt # Null
    /\ finishedTx # {}
    /\ hostExits > 0

\* C5 (as claimed): status never moves from lobby directly to ended.
C5_NoLobbyToEnded ==
    [][ room.status = "lobby" => room'.status # "ended" ]_vars

\* C5 (amended): status moves from lobby directly to ended only by the
\* host's confirmed leave on the room-host screen, which writes
\* endedReason = 'host_left' and locked = true and sends the host to the
\* results; every other write of 'ended' is made over in_progress or ended.
C5_LobbyToEndedOnlyByHostLeave ==
    [][ (room.status = "lobby" /\ room'.status = "ended")
        => /\ screen[HostUid] = "room-host"
           /\ screen'[HostUid] = "room-result"
           /\ room'.endedReason = "host_left"
           /\ room'.locked ]_vars

\* C5 witness: the host has left a lobby that guests had joined
C5_Witness ==
    /\ endedWrites # <<>>
    /\ endedWrites[1].from = "lobby"
    /\ endedWrites[1].by = "handleLeaveAsHost"
    /\ room.status = "ended"
    /\ Cardinality(Roster) >= 2

\* C6: the seed is assigned exactly once: after a write has set a seed, no
\* step changes seed or startedAt.
C6_SeedAssignedOnce ==
    [][ room.seed # Null
        => room'.seed = room.seed /\ room'.startedAt = room.startedAt ]_vars

\* C6 witness: a started room with its seed, after finish transactions and a
\* host exit have written to it
C6_Witness ==
    /\ room.seed # Null
    /\ room.finishedCount > 0
    /\ hostExits > 0

\* C7: seed and startedAt are both null or both set.
C7_SeedIffStartedAt ==
    (room.seed = Null) <=> (room.startedAt = Null)

\* C7 witness: a started room
C7_Witness ==
    room.status = "in_progress" /\ room.seed # Null /\ room.startedAt # Null

\* C8: endedReason is set if and only if status = ended.
C8_ReasonIffEnded ==
    (room.endedReason # NoReason) <=> (room.status = "ended")

\* C8 witness: rooms ended by each of the three writers have been seen
C8_Witness ==
    /\ room.status = "ended"
    /\ room.endedReason = "host_left"
    /\ WritesBy("finishGame") # {}
    /\ WritesBy("handleExit") # {}

\* C9 (as claimed): once endedReason is set, no later write changes
\* endedReason or endedAt.
C9_ReasonSetOnce ==
    [][ room.endedReason # NoReason
        => /\ room'.endedReason = room.endedReason
           /\ room'.endedAt = room.endedAt ]_vars

\* C9 (amended): once endedReason is set, no finish transaction changes
\* endedReason or endedAt; the only write that does is the host's
\* unguarded exit from the game screen, and it writes 'host_left'.
C9_ReasonChangedOnlyByHostExit ==
    [][ (room.endedReason # NoReason
           /\ (room'.endedReason # room.endedReason
                 \/ room'.endedAt # room.endedAt))
        => /\ OnGame(HostUid)
           /\ hostExits' = hostExits + 1
           /\ room'.endedReason = "host_left"
           /\ room'.status = "ended" ]_vars

\* C9 witness: finish transactions have committed on a room that was
\* already ended, and the room keeps the reason and endedAt of its one
\* closing write
C9_Witness ==
    /\ Len(endedWrites) = 1
    /\ room.endedReason = endedWrites[1].reason
    /\ room.endedAt = endedWrites[1].at
    /\ \E u \in finishedTx : players[u].finishedAt # Null
    /\ Cardinality(finishedTx) > room.finishedCount

\* C10: host override wins.  From the host's exit write on, the room is
\* ended with endedReason = 'host_left' and locked = true, whatever
\* finishedCount was, and no later finish transaction undoes it.
C10_HostOverrideWins ==
    hostExits > 0
    => /\ room.status = "ended"
       /\ room.endedReason = "host_left"
       /\ room.locked

\* C10 witness: the host left an in_progress room in which nobody had
\* finished, and a guest's finish transaction has committed afterwards
C10_Witness ==
    /\ hostExits > 0
    /\ endedWrites[1].by = "handleExit"
    /\ endedWrites[1].from = "in_progress"
    /\ room.finishedCount = 0
    /\ finishedTx \cap Guests # {}

\* C11: in every state of a started room, finishedCount <= playerCount.
C11_FinishedAtMostPlayerCount ==
    room.startedAt # Null
    => /\ room.finishedCount # Null
       /\ room.playerCount # Null
       /\ room.finishedCount <= room.playerCount

\* C11 witness: more finish transactions have committed than playerCount
\* counts (a player joined behind the start), and the counter stands at
\* playerCount
C11_Witness ==
    /\ room.startedAt # Null
    /\ room.finishedCount = room.playerCount
    /\ Cardinality(finishedTx) > room.playerCount

\* C12: finishedCount never decreases: once the counter is written, every
\* step leaves it or raises it, and no step removes it.
C12_FinishedCountMonotonic ==
    [][ room.finishedCount # Null
        => room'.finishedCount >= room.finishedCount ]_vars

\* C12 witness: the counter was reset to 0 by the start, raised by finish
\* transactions, and the host's exit and a later transaction have left it
C12_Witness ==
    /\ room.finishedCount = 1
    /\ hostExits > 0
    /\ Cardinality(finishedTx) >= 2

\* C13 (as claimed): once the room is locked, it holds at most maxPlayers
\* Player records, whatever the interleaving of the joins was.
C13_CapacityOnceLocked ==
    room.locked => Cardinality(Roster) <= room.maxPlayers

\* the clients of the specification at hand
Clients == DOMAIN screen

\* a step in which joinRoom shows client u an Alert and returns
Rejected(u, title) ==
    /\ screen[u] \in {"home", "join:getDocs"}
    /\ screen'[u] = "home"
    /\ alerts'[u] = title
    /\ alerts'[u] # alerts[u] \/ screen[u] = "join:getDocs"

\* C14: a JoinRoom that is rejected leaves the shared state as it was, and
\* is rejected for the stated reason: 'Room locked' when the room it read has
\* status # lobby or locked = true, 'Room full' when the roster it read has
\* maxPlayers records or more, 'Room not found' for a code without a room;
\* a call passes the room check only on an unlocked lobby and passes the
\* capacity check only on a roster below maxPlayers; and the write of a call
\* that passed inserts or merges exactly the caller's Player record, with
\* isHost = false.
C14_JoinRejectionsLeaveState ==
    [][ \A u \in Clients :
          /\ (\E t \in {"Room not found", "Room locked", "Room full"} :
                 Rejected(u, t))
             => room' = room /\ players' = players
          /\ Rejected(u, "Room locked")
             => room.status # "lobby" \/ room.locked
          /\ Rejected(u, "Room full")
             => Cardinality(Roster) >= room.maxPlayers
          /\ (screen[u] = "home" /\ screen'[u] = "join:getDocs")
             => room.status = "lobby" /\ ~room.locked /\ alerts' = alerts
          /\ (screen[u] = "join:getDocs" /\ screen'[u] = "join:setDoc")
             => Cardinality(Roster) < room.maxPlayers /\ alerts' = alerts
          /\ (screen[u] = "join:setDoc" /\ screen'[u] # "join:setDoc")
             => /\ DOMAIN players' = Roster \cup {uid(u)}
                /\ ~players'[uid(u)].isHost
                /\ \A v \in Roster \ {uid(u)} : players'[v] = players[v]
                /\ room' = room
    ]_vars

\* C14 witness: one client was refused a full room and joined after another
\* had left, and a second client was refused the locked room afterwards
C14_Witness ==
    /\ \E u \in Clients :
          /\ alerts[u] = "Room full"
          /\ uid(u) \in Roster
          /\ ~players[uid(u)].isHost
    /\ \E u \in Clients : alerts[u] = "Room locked" /\ uid(u) \notin Roster
    /\ room.locked

\* the clients whose JoinRoom has succeeded and who have not left since
JoinedClients ==
    { u \in Clients : screen[u] \in {"room-wait", "game", "room-result"} }

C16_JoinKeepsProgress ==
    [][ \A c \in Clients :
          (screen[c] = "join:setDoc" /\ screen'[c] = "room-wait"
             /\ uid(c) \in Roster)
          => /\ DOMAIN players' = Roster
             /\ players'[uid(c)].score = players[uid(c)].score
             /\ players'[uid(c)].finishedAt = players[uid(c)].finishedAt
    ]_vars

\* the Player records marked as host
HostRecords == { v \in Roster : players[v].isHost }

\* C17 (as claimed): the room has exactly one Player record with
\* isHost = true, and it is the record of the room's hostUid.
C17_ExactlyOneHostRecord ==
    HostRecords = {room.hostUid}

\* C18 (as claimed): no Player record is deleted while the room's status is
\* in_progress or ended.
C18_NoDeleteOutsideLobby ==
    [][ room.status # "lobby" => Roster \subseteq DOMAIN players' ]_vars

\* C19 (as claimed): the room is started only by a write of the host made on
\* a room that, when the write is applied, has status = lobby,
\* locked = false and a roster of two or more; a Start that is rejected
\* leaves the room as it is.
C19_StartOnlyOnValidLobby ==
    [][ room'.startedAt # room.startedAt
        => /\ screen[HostUid] = "room-host"
           /\ room.hostUid = HostUid
           /\ room.status = "lobby"
           /\ ~room.locked
           /\ Cardinality(Roster) >= 2 ]_vars

C21_CreateNeverOverwrites ==
    [][ \A code \in DOMAIN rooms :
          /\ code \in DOMAIN rooms'
          /\ rooms'[code] = rooms[code]
          /\ code \in DOMAIN roomPlayers'
             => { v \in DOMAIN roomPlayers'[code] :
                     roomPlayers'[code][v].isHost } = {rooms[code].hostUid}
    ]_vars

\* the step in which the finish transaction of device c commits
FinishCommits(c) == screen[c] = "game" /\ screen'[c] = "game:replace"

\* the Player record of identity id holds the snapshot `values`
HoldsSnapshot(record, values) ==
    /\ record.score = values.score
    /\ record.attempts = values.attempts
    /\ record.correct = values.solved
    /\ record.accuracy = Accuracy(values.solved, values.attempts)
    /\ record.finishedAt # Null

\* C28: finishedCount is incremented at most once per player identity.  A
\* finish transaction for a player whose record has finishedAt set merges
\* its snapshot into the record and leaves the room as it is (finishedCount,
\* status and endedReason with it); a transaction that changes
\* finishedCount adds one, for a player whose record had no finishedAt; and
\* finishedCount never exceeds the number of identities whose transaction
\* has committed.
C28_CountedOncePerIdentity ==
    [][ /\ \A c \in Clients :
              FinishCommits(c) =>
                 /\ (uid(c) \in Roster /\ players[uid(c)].finishedAt # Null)
                    => /\ room' = room
                       /\ HoldsSnapshot(players'[uid(c)], finishing[c])
                 /\ room'.finishedCount # room.finishedCount
                    => /\ room'.finishedCount = room.finishedCount + 1
                       /\ uid(c) \in Roster
                          => players[uid(c)].finishedAt = Null
        /\ room'.finishedCount <= Cardinality({ uid(c) : c \in finishedTx' })
      ]_vars

\* C28 witness: both devices of the guest have committed their finish
\* transaction; the record holds the snapshot and the second finishedAt, and
\* the room, in progress, has counted one of its two players
C28_Witness ==
    /\ finishedTx = {GuestNames[1], SecondSession}
    /\ players[GuestNames[1]].finishedAt = 2
    /\ players[GuestNames[1]].score = Gain
    /\ room.finishedCount = 1
    /\ room.playerCount = 2
    /\ room.status = "in_progress"
    /\ room.endedReason = NoReason

\* C29: a finish transaction that reads a room whose status is not
\* 'in_progress', or whose endedReason is set, writes the player's snapshot
\* and changes no field of the room.
C29_FinishOnEndedRoomKeepsRoom ==
    [][ \A c \in Clients :
          ( /\ FinishCommits(c)
            /\ room.status # "in_progress" \/ room.endedReason # NoReason )
          => /\ room' = room
             /\ uid(c) \in DOMAIN players'
             /\ HoldsSnapshot(players'[uid(c)], finishing[c])
      ]_vars

\* C29 witness: the host has left, no player had finished before, and the
\* guest's transaction has then written a snapshot with one correct answer:
\* the room still counts no finisher
C29_Witness ==
    /\ room.status = "ended"
    /\ room.endedReason = "host_left"
    /\ room.finishedCount = 0
    /\ GuestNames[1] \in finishedTx
    /\ GuestNames[1] \in Roster
    /\ HoldsSnapshot(players[GuestNames[1]],
                     [ score |-> Gain, solved |-> 1, attempts |-> 1 ])

\* C30 (as claimed): the snapshot a finish transaction merges carries the
\* score, attempts and correct count the player has accumulated when the
\* finish event happens, with score = 10 x correct and accuracy =
\* round(100 x correct / attempts), 0 without attempts.
C30_SnapshotIsCurrent ==
    [][ \A c \in Clients :
          FinishCommits(c)
          => /\ HoldsSnapshot(players'[uid(c)], stats[c])
             /\ players'[uid(c)].score = Gain * players'[uid(c)].correct
      ]_vars

\* C27 (as claimed): when every player of the roster of a started room has
\* had their finish event and the store has taken their snapshot, the room
\* reaches status 'ended', whatever joins, leaves and start came before.
C27_AllFinishedLeadsToEnded ==
    ( /\ room.status = "in_progress"
      /\ \A v \in Roster : players[v].finishedAt # Null )
    ~> (room.status = "ended")

StrictlyAhead(i, j) ==
    \/ ranked[i].score > ranked[j].score
    \/ /\ ranked[i].score = ranked[j].score
       /\ ranked[i].accuracy > ranked[j].accuracy

\* the entries of ranked at i and j are tied on score and accuracy
Tied(i, j) ==
    /\ ranked[i].score = ranked[j].score
    /\ ranked[i].accuracy = ranked[j].accuracy

\* the uids, scores and accuracies of the list the screen holds
ResultSet ==
    { << resultPlayers[i].uid, resultPlayers[i].score,
         resultPlayers[i].accuracy >> : i \in DOMAIN resultPlayers }

\* the scenario: A(score 100, accuracy 90), B(100, 95), C(80, 99)
ScenarioSet == { << "A", 100, 90 >>, << "B", 100, 95 >>, << "C", 80, 99 >> }

\* C23: computeRanks orders the players by score descending, then accuracy
\* descending, then display name ascending, and returns every player of its
\* input once; for A(100, 90), B(100, 95), C(80, 99) the result is B rank 1,
\* A rank 2, C rank 3, the winner is B and the top accuracy is C's alone.
C23_SortOrderAndScenario ==
    /\ \A i, j \in DOMAIN ranked :
          i < j => \/ StrictlyAhead(i, j)
                   \/ /\ Tied(i, j)
                      /\ localeCompare(ranked[i].displayName,
                                       ranked[j].displayName) <= 0
    /\ Len(ranked) = Len(resultPlayers)
    /\ { PlayerResult(ranked[i].uid, ranked[i].displayName, ranked[i].score,
                      ranked[i].accuracy) : i \in DOMAIN ranked }
         = { resultPlayers[i] : i \in DOMAIN resultPlayers }
    /\ ResultSet = ScenarioSet
       => /\ [ i \in DOMAIN ranked |-> ranked[i].uid ] = << "B", "A", "C" >>
          /\ [ i \in DOMAIN ranked |-> ranked[i].rank ] = << 1, 2, 3 >>
          /\ winner # <<>> /\ winner[1].uid = "B"
          /\ { ranked[i].uid : i \in { k \in DOMAIN ranked :
                                          ranked[k].isTopAccuracy } } = {"C"}

\* C23 witness: the list came as A, B, C with the scenario's values, and
\* the screen shows B, A, C
C23_Witness ==
    /\ ResultSet = ScenarioSet
    /\ [ i \in DOMAIN resultPlayers |-> resultPlayers[i].uid ]
         = << "A", "B", "C" >>
    /\ [ i \in DOMAIN ranked |-> ranked[i].uid ] = << "B", "A", "C" >>
    /\ winner[1].uid = "B"

\* C24 (as claimed): computeRanks gives the same ordering of the players and
\* the same rank numbers for every order in which its input lists them,
\* also when players share score, accuracy and display name.
C24_SameForEveryInputOrder ==
    \A f \in Permutations(DOMAIN resultPlayers) :
       computeRanks([ i \in DOMAIN resultPlayers |-> resultPlayers[f[i]] ],
                    MyUid) = ranked

\* C25: competition ranking.  Entries tied on score and accuracy share a
\* rank, the first entry of a group has its position in the sorted list as
\* rank, and the rank of an entry is 1 plus the number of entries strictly
\* ahead of it.
C25_CompetitionRanking ==
    \A i \in DOMAIN ranked :
       /\ \A j \in DOMAIN ranked :
             Tied(i, j) => ranked[i].rank = ranked[j].rank
       /\ (i = 1 \/ ~Tied(i - 1, i)) => ranked[i].rank = i
       /\ ranked[i].rank
            = 1 + Cardinality({ j \in DOMAIN ranked : StrictlyAhead(j, i) })

\* C25 witness: two players tied for first, and the third entry has rank 3
C25_Witness ==
    /\ Len(ranked) = 3
    /\ Tied(1, 2)
    /\ ranked[1].score = 100
    /\ ranked[1].rank = 1 /\ ranked[2].rank = 1
    /\ ranked[3].rank = 3

C31_FinishedAtSetOnce ==
    [][ \A v \in Roster :
          players[v].finishedAt # Null
          => /\ v \in DOMAIN players'
             /\ players'[v].finishedAt = players[v].finishedAt
      ]_vars


\* C32: in a started room the stored seed is an integer in 1..2,000,000,000,
\* and every client on the game screen plays from the generator seeded with
\* it, never from the unseeded source; a client has drawn one question at
\* the start of its game and one per correct answer; so two clients of the
\* room with the same number of correct answers are shown the same question.
C32_RoomSeedGivesSameQuestions ==
    /\ room.status = "in_progress" => room.seed \in 1..MAX_SEED
    /\ \A c \in DOMAIN generators :
          OnGame(c)
          => /\ generators[c].seed # Null
             /\ generators[c].seed = room.seed
             /\ Len(produced[c]) = 1 + stats[c].solved
    /\ \A c, d \in DOMAIN generators :
          ( OnGame(c) /\ OnGame(d) /\ stats[c].solved = stats[d].solved )
          => produced[c][Len(produced[c])] = produced[d][Len(produced[d])]

\* C32 witness: host and guest play the room of seed 2,000,000,000, each has
\* answered the first question correctly and both are shown the same second
\* question
C32_Witness ==
    /\ room.status = "in_progress"
    /\ room.seed = MAX_SEED
    /\ \A c \in QuizClients :
          /\ screen[c] = "game"
          /\ stats[c].solved = 1
          /\ generators[c].seed = MAX_SEED
          /\ Len(produced[c]) = 2
    /\ produced[HostUid][2] = produced[GuestNames[1]][2]
    /\ produced[HostUid][2] # produced[HostUid][1]


\* the end instant of the room as its document gives it: startedAt plus
\* durationSec, in ms
RoomEnd == toMillis(room.startedAt) + room.durationSec * 1000

\* C33: once the listener of a client on the game screen has processed a
\* room snapshot that carries startedAt, the end instant the client holds is
\* within 1000 ms of startedAt + durationSec x 1000; so two clients that
\* have observed the started room hold end instants at most 2000 ms apart,
\* whenever each of them observed the start.
C33_EndWithinOneSecond ==
    /\ \A c \in sawStartedAt :
          /\ room.startedAt # Null
          /\ endTimeMs[c] # Null
          /\ Abs(endTimeMs[c] - RoomEnd) <= 1000
    /\ \A c, d \in sawStartedAt :
          Abs(endTimeMs[c] - endTimeMs[d]) <= 2000

\* C33 witness: the host, whose first snapshot had no startedAt, has kept
\* the end instant of its fallback, exactly 1000 ms before that of the room,
\* after a snapshot with startedAt; the guest holds the room's end instant
C33_Witness ==
    /\ sawStartedAt = CountdownClients
    /\ room.durationSec = 120
    /\ endTimeMs[HostUid] = 4000 + 120000
    /\ startedAtRef[HostUid] = StartedAtMs
    /\ endTimeMs[GuestNames[1]] = StartedAtMs + 120000

\* C34: a client whose listener processes a snapshot with status
\* 'in_progress' and no startedAt while it holds no end instant sets its end
\* instant to a reading of the clock plus durationSec; and when it
\* processes a snapshot with startedAt while it holds an end instant, it
\* adopts startedAt + durationSec if that differs from the held instant by
\* more than 1000 ms, and keeps the held instant otherwise.
C34_FallbackThenAdoptIfFar ==
    [][ \A c \in Timed :
          GameRoomSnapshot(c)
          => /\ ( /\ SnapshotFor(c).status = "in_progress"
                  /\ SnapshotFor(c).startedAt = Null
                  /\ endTimeMs[c] = Null )
                => \E now \in Nows :
                      endTimeMs'[c] = now + room.durationSec * 1000
             /\ ( /\ SnapshotFor(c).startedAt # Null
                  /\ endTimeMs[c] # Null )
                => endTimeMs'[c] = IF Abs(RoomEnd - endTimeMs[c]) > 1000
                                   THEN RoomEnd ELSE endTimeMs[c]
      ]_vars

\* C34 witness: the host, whose write of startedAt is not answered yet, has
\* taken the end instant of the fallback, 6001 + 60000 ms, which is more
\* than 1000 ms after the one the room will give
C34_Witness ==
    /\ HostUid \in hasPendingWrites
    /\ screen[HostUid] = "game"
    /\ roomHostUid[HostUid] = HostUid
    /\ HostUid \notin sawStartedAt
    /\ room.durationSec = 60
    /\ endTimeMs[HostUid] = 6001 + 60000
    /\ Abs(RoomEnd - endTimeMs[HostUid]) > 1000


StartFields(r) ==
    /\ r.locked
    /\ r.seed # Null
    /\ r.finishedCount # Null
    /\ r.playerCount # Null
    /\ r.playerCount >= 2

\* C36 (as claimed): a room with status 'in_progress' is locked and has a
\* seed, startedAt, finishedCount and a playerCount of 2 or more; a room with
\* status 'ended' is locked; and no client is served a started room with
\* only part of the start fields.
C36_NoPartialStart ==
    /\ room.status = "in_progress"
       => StartFields(room) /\ room.startedAt # Null
    /\ room.status = "ended" => room.locked
    /\ \A c \in Timed :
          SnapshotFor(c).status = "in_progress"
          => StartFields(SnapshotFor(c)) /\ SnapshotFor(c).startedAt # Null

\* C36 (amended): the stored room is as claimed, and the snapshot served to
\* a client differs from it for the host only, until the server has
\* answered the write of handleStart: that snapshot has every start field
\* but startedAt.
C36_PartialOnlyWhilePending ==
    /\ room.status = "in_progress"
       => StartFields(room) /\ room.startedAt # Null
    /\ room.status = "ended" => room.locked
    /\ hasPendingWrites \subseteq {room.hostUid}
    /\ \A c \in Timed :
          /\ c \notin hasPendingWrites => SnapshotFor(c) = room
          /\ ( c \in hasPendingWrites
               /\ SnapshotFor(c).status = "in_progress" )
             => /\ StartFields(SnapshotFor(c))
                /\ SnapshotFor(c).startedAt = Null
                /\ room.startedAt # Null

\* C36 witness: the guest plays on a complete snapshot of the started room
\* while the host's own snapshots still lack startedAt
C36_Witness ==
    /\ room.status = "in_progress"
    /\ room.playerCount = 2
    /\ HostUid \in hasPendingWrites
    /\ roomHostUid[HostUid] = HostUid
    /\ endTimeMs[HostUid] # Null
    /\ GuestNames[1] \in sawStartedAt
    /\ endTimeMs[GuestNames[1]] = RoomEnd


\* a prime number
IsPrime(p) == p >= 2 /\ \A k \in 2..(p - 1) : p % k # 0

\* the answer of question q is the value of its prompt, by the meaning of
\* the prompt: a quotient and a root are exact, an LCM is the least common
\* multiple, an HCF the greatest common divisor, and the highest prime
\* factor the greatest prime that divides the number
AnswersPrompt(q) ==
    LET T == q.prompt.template
        N == q.prompt.numbers
        A == q.answer
    IN  /\ A \in Nat
        /\ CASE T = "a + b" -> A = N[1] + N[2]
             [] T = "bigger - smaller" -> N[1] >= N[2] /\ A = N[1] - N[2]
             [] T = "a x b" -> A = N[1] * N[2]
             [] T = "dividend / divisor" -> N[2] > 0 /\ A * N[2] = N[1]
             [] T = "LCM(a, b)" ->
                  /\ A > 0 /\ A % N[1] = 0 /\ A % N[2] = 0
                  /\ \A m \in 1..(A - 1) : m % N[1] # 0 \/ m % N[2] # 0
             [] T = "HCF(a, b)" ->
                  /\ A > 0 /\ N[1] % A = 0 /\ N[2] % A = 0
                  /\ \A m \in (A + 1)..N[1] : N[1] % m # 0 \/ N[2] % m # 0
             [] T = "Highest prime factor of num" ->
                  /\ N[1] \in 60..220
                  /\ IsPrime(A) /\ N[1] % A = 0
                  /\ \A m \in (A + 1)..N[1] : ~(IsPrime(m) /\ N[1] % m = 0)
             [] T = "root of n * n" -> A * A = N[1]
             [] T = "n squared" -> A = N[1] * N[1]
             [] T = "cube root of n * n * n" -> A * A * A = N[1]
             [] T = "n cubed" -> A = N[1] * N[1] * N[1]
             [] OTHER -> FALSE

\* C37: for every category and every operand of the coded ranges,
\* generateQuestion returns a question whose answer is a natural number
\* equal to the value of its prompt: the dividend is divisor x quotient, the
\* roots are of perfect squares and cubes, LCM and HCF are those of the two
\* operands, and the highest prime factor is that of a number in 60..220.
C37_AnswerIsValueOfPrompt ==
    \A g \in DOMAIN produced :
       \A i \in 1..Len(produced[g]) : AnswersPrompt(produced[g][i])

\* C37 witness: the question of the last category values: LCM(12, 14) with
\* answer 84
C37_Witness ==
    /\ Solo \in DOMAIN produced
    /\ produced[Solo] = << Question("LCM(a, b)", << 12, 14 >>, 84) >>


\* C38 (as claimed): a finish of a signed-in room player always runs the
\* room transaction, also when its statistics reads or writes fail: a client
\* that leaves the game screen for the results has committed its
\* transaction, and the player's record holds its snapshot and finishedAt.
C38_FinishAlwaysRunsTransaction ==
    [][ \A c \in Clients :
          ( OnGame(c) /\ screen'[c] = "room-result" )
          => /\ c \in finishedTx
             /\ uid(c) \in Roster
             /\ players[uid(c)].finishedAt # Null
      ]_vars

====
